---- MODULE Spec2Model ----
(***************************************************************************)
(* Frame timing of psychopy.visual.Window (per-flip bookkeeping, the       *)
(* refresh-rate measurement getActualFrameRate, the start-up calibration   *)
(* in Window.__init__) and the unit-space registry of                      *)
(* psychopy.tools.monitorunittools.                                        *)
(*                                                                         *)
(* Times are integers in milliseconds.  Quantities the program computes by *)
(* division (rates, periods, thresholds) are exact fractions               *)
(* [num |-> n, den |-> d] and are compared by cross-multiplication.        *)
(***************************************************************************)
EXTENDS Integers, Sequences, FiniteSets, TLC

VARIABLES
    clock,              \* the time read by logging.defaultClock.getTime(), ms
    win,                \* the timing fields of the Window object
    log,                \* how many warnings of each kind were logged
    pc,                 \* where the program is: __init__, the measurement, or user code
    constructed,        \* Window.__init__ has finished
    checkTiming,        \* the checkTiming argument of Window.__init__
    swapSource,         \* how the buffer swaps behave during start-up
    call,               \* arguments and locals of the getActualFrameRate call that
                        \* is running or has just ended
    ret,                \* what getActualFrameRate has just returned or raised
    nFlips,             \* flips performed since construction finished
    _unit2PixMappings,  \* the registry: unit name -> mapping function
    unitCall,           \* the most recent registry operation and its outcome
    conv,               \* a conversion call: its arguments and, once it has
                        \* run, its result
    _toCall,            \* the entries callOnFlip has queued for the next flip
    flipped,            \* the flip() or multiFlip() call that ran last: its
                        \* arguments, the clearBuffer argument of each flip it
                        \* performed and the entries those flips called
    sinceFps,           \* the flips performed, and the time, since fps() was last
                        \* called (or since the window was created)
    _toLog,             \* the entries logOnFlip has queued for the next flip
    openWindows,        \* the windows whose __init__ has finished, in that order
    currWindow,         \* the global currWindow of window.py
    basevisual_currWindow,  \* the global currWindow of basevisual.py
    context,            \* the window whose GL context is the active one
    swapped,            \* the buffer swap performed last: the window that
                        \* flipped and the context that was active
    stims,              \* the stimuli created so far, each with its attributes
    stimCall,           \* the stimulus operation that ran last
    _toDraw,            \* per window: the stimuli drawn automatically at each flip
    _toDrawDepths       \* per window: the depths of the stimuli of _toDraw

winVars  == <<clock, win, log, pc, constructed, checkTiming, swapSource,
              call, ret, nFlips>>
unitVars == <<_unit2PixMappings, unitCall, conv>>
flipVars == <<_toCall, _toLog, flipped, sinceFps>>
glVars   == <<openWindows, currWindow, basevisual_currWindow, context, swapped>>
stimVars == <<stims, stimCall, _toDraw, _toDrawDepths>>
vars     == <<winVars, unitVars, flipVars, glVars, stimVars>>

----------------------------------------------------------------------------
(* Bounds of the model *)

MaxFlips == 4
MaxNIdentical == 3
MaxNMaxFrames == 3
MaxNWarmUpFrames == 1
MaxUnitOps == 4
MaxMultiFlips == 3
MaxToCall == 2
MaxRows == 2
MaxToLog == 1
MaxStims == 3

(* Program constants *)

reportNDroppedFrames == 5
DefaultNIdentical == 10
DefaultNMaxFrames == 100
DefaultNWarmUpFrames == 10
DefaultThreshold == 1
MsPerSecond == 1000
FlatPanelRate == 60

(* the factor 1.2 of the drop-frame threshold, as the fraction 12/10 *)
Tolerance == [num |-> 12, den |-> 10]

(* Inputs *)

\* durations of one buffer swap that user code may observe, ms
IntervalSet == {16, 20, 40}

\* thresholds (ms) user code passes to getActualFrameRate
ThresholdSet == {1, 3}

\* the entries user code passes to callOnFlip: function, args, kwargs
CallEntries ==
    { [function |-> "assertThisIs2", args |-> <<2>>, kwargs |-> <<>>],
      [function |-> "pingMyDevice", args |-> <<1>>,
       kwargs |-> <<"channel", 2, "level", 0>>] }

\* entries whose function, when called, calls callOnFlip on the same window:
\* queueAnother queues assertThisIs2(2), queueItself queues itself again
RequeueEntries ==
    { [function |-> "queueAnother", args |-> <<>>, kwargs |-> <<>>],
      [function |-> "queueItself", args |-> <<>>, kwargs |-> <<>>] }

\* the entries user code passes to logOnFlip: msg, level
LogEntries ==
    { [msg |-> "trial start", level |-> "EXP"],
      [msg |-> "Set stim pos", level |-> "EXP"] }

\* the windows user code opens: win is the one whose timing is followed
Windows == {"win", "win2"}

NIdenticalSet    == 2..MaxNIdentical
NMaxFramesSet    == 2..MaxNMaxFrames
NWarmUpFramesSet == 0..MaxNWarmUpFrames

\* the swap sources met while the window is being constructed:
\* "steady" swaps every 10 ms; "jitter" alternates between 10 ms and 40 ms;
\* "stall" alternates between 10 ms and a stall of 1500 ms
StartupSources == {"steady", "jitter", "stall"}

\* the durations the n-th swap of a loop may take
SwapChoices(source, n) ==
    IF source = "steady" THEN {10}
    ELSE IF source = "jitter" THEN {IF n % 2 = 0 THEN 10 ELSE 40}
    ELSE IF source = "stall" THEN {IF n % 2 = 0 THEN 10 ELSE 1500}
    ELSE IntervalSet

----------------------------------------------------------------------------
(* Values *)

RECURSIVE GCD(_, _)
GCD(a, b) == IF b = 0 THEN a ELSE GCD(b, a % b)

\* the fraction n/d in lowest terms (n >= 0, d > 0)
Frac(n, d) == [num |-> n \div GCD(n, d), den |-> d \div GCD(n, d)]

\* what getActualFrameRate returns or raises; a rate is a fraction in Hz
None       == [kind |-> "None", num |-> 0, den |-> 1]
ValueError == [kind |-> "ValueError", num |-> 0, den |-> 1]
Pending    == [kind |-> "pending", num |-> 0, den |-> 1]
RateValue(n, d) == [kind |-> "rate", num |-> Frac(n, d).num, den |-> Frac(n, d).den]

RECURSIVE Sum(_)
Sum(s) == IF s = <<>> THEN 0 ELSE Head(s) + Sum(Tail(s))

RECURSIVE SumSq(_)
SumSq(s) == IF s = <<>> THEN 0 ELSE Head(s) * Head(s) + SumSq(Tail(s))

\* s[-n:] for 1 <= n <= len(s)
LastN(s, n) == SubSeq(s, Len(s) - n + 1, Len(s))

\* numpy.std(s) < threshold/1000.0, with s and threshold in ms:
\* the population variance (n*sum(x^2) - sum(x)^2) / n^2 is below threshold^2
StdBelow(s, threshold) ==
    Len(s) * SumSq(s) - Sum(s) * Sum(s) < threshold * threshold * Len(s) * Len(s)

\* 1.0/numpy.mean(s) in Hz, s in ms
RateOf(s) == RateValue(MsPerSecond * Len(s), Sum(s))

----------------------------------------------------------------------------
(* Window.__init__, the timing fields (window.py 319-335) *)

InitWin(now) ==
    [ frameClock |-> now,
      frames |-> 0,
      recordFrameIntervals |-> FALSE,
      recordFrameIntervalsJustTurnedOn |-> FALSE,
      nDroppedFrames |-> 0,
      frameIntervals |-> <<>>,
      lastFrameT |-> now,
      _refreshThreshold |-> Frac(MsPerSecond, 1),
      _monitorFrameRate |-> None,
      monitorFramePeriod |-> Frac(0, 1) ]

InitLog == [frameTime |-> 0, stopBothering |-> 0, noConsistentRate |-> 0]

(* Window.setRecordFrameIntervals *)

SetRecordFrameIntervals(w, value, now) ==
    [w EXCEPT !.recordFrameIntervalsJustTurnedOn =
                  IF ~w.recordFrameIntervals /\ value THEN TRUE ELSE FALSE,
              !.recordFrameIntervals = value,
              !.frameClock = now]

(* Window.flip, the bookkeeping after the buffer swap *)

\* variant: a sample equal to the threshold counts as a drop
ExceedsThreshold_orEqual(deltaT, thr) == deltaT * thr.den >= thr.num

\* deltaT > self._refreshThreshold
ExceedsThreshold(deltaT, thr) == deltaT * thr.den > thr.num

\* variant: the time of the swap is kept also while recording is off
Flip_stampAlways(w, now) ==
    LET deltaT == now - w.lastFrameT IN
    IF ~w.recordFrameIntervals THEN [w EXCEPT !.lastFrameT = now]
    ELSE IF w.recordFrameIntervalsJustTurnedOn
         THEN [w EXCEPT !.frames = @ + 1,
                        !.lastFrameT = now,
                        !.recordFrameIntervalsJustTurnedOn = FALSE]
         ELSE [w EXCEPT !.frames = @ + 1,
                        !.lastFrameT = now,
                        !.frameIntervals = Append(@, deltaT),
                        !.nDroppedFrames =
                            IF ExceedsThreshold(deltaT, w._refreshThreshold)
                            THEN @ + 1 ELSE @]

Flip(w, now) ==
    LET deltaT == now - w.lastFrameT IN
    IF ~w.recordFrameIntervals THEN w
    ELSE IF w.recordFrameIntervalsJustTurnedOn
         THEN [w EXCEPT !.frames = @ + 1,
                        !.lastFrameT = now,
                        !.recordFrameIntervalsJustTurnedOn = FALSE]
         ELSE [w EXCEPT !.frames = @ + 1,
                        !.lastFrameT = now,
                        !.frameIntervals = Append(@, deltaT),
                        !.nDroppedFrames =
                            IF ExceedsThreshold(deltaT, w._refreshThreshold)
                            THEN @ + 1 ELSE @]

\* variant: the closing warning is repeated for every later drop
FlipLog_neverQuiet(w, l, now) ==
    LET deltaT == now - w.lastFrameT
        nDroppedFrames == w.nDroppedFrames + 1
    IN  IF w.recordFrameIntervals /\ ~w.recordFrameIntervalsJustTurnedOn
           /\ deltaT * w._refreshThreshold.den > w._refreshThreshold.num
        THEN IF nDroppedFrames < reportNDroppedFrames
             THEN [l EXCEPT !.frameTime = @ + 1]
             ELSE [l EXCEPT !.stopBothering = @ + 1]
        ELSE l

\* the warnings flip() logs: w is the window before the flip
FlipLog(w, l, now) ==
    LET deltaT == now - w.lastFrameT
        nDroppedFrames == w.nDroppedFrames + 1
    IN  IF w.recordFrameIntervals /\ ~w.recordFrameIntervalsJustTurnedOn
           /\ ExceedsThreshold(deltaT, w._refreshThreshold)
        THEN IF nDroppedFrames < reportNDroppedFrames
             THEN [l EXCEPT !.frameTime = @ + 1]
             ELSE IF nDroppedFrames = reportNDroppedFrames
                  THEN [l EXCEPT !.stopBothering = @ + 1]
                  ELSE l
        ELSE l

\* what callOnFlip appends while the function of this entry runs
Registered(callEntry) ==
    IF callEntry.function = "queueAnother"
    THEN <<[function |-> "assertThisIs2", args |-> <<2>>, kwargs |-> <<>>]>>
    ELSE IF callEntry.function = "queueItself" THEN <<callEntry>>
    ELSE <<>>

\* a loop over _toCall that makes more calls than this never ends: each entry
\* of a queue of MaxToCall entries queues at most one entry that queues none
MaxCallsPerFlip == 2 * MaxToCall + 1

\* for callEntry in self._toCall: the loop from index i on, over a list that
\* grows while it is walked; returns is FALSE when the loop has no end
RECURSIVE CallLoop(_, _, _)
CallLoop(toCall, i, fuel) ==
    IF i > Len(toCall)
    THEN [called |-> <<>>, toCall |-> toCall, returns |-> TRUE]
    ELSE IF fuel = 0
    THEN [called |-> <<>>, toCall |-> toCall, returns |-> FALSE]
    ELSE LET rest == CallLoop(toCall \o Registered(toCall[i]), i + 1, fuel - 1)
         IN  [rest EXCEPT !.called = <<toCall[i]>> \o @]

\* the entries flip() calls after the swap, in the order it calls them
CalledByFlip(toCall) == CallLoop(toCall, 1, MaxCallsPerFlip).called

\* the loop over _toCall comes to an end
FlipReturns(toCall) == CallLoop(toCall, 1, MaxCallsPerFlip).returns

\* variant: the queue is not emptied
ToCallAfterFlip_kept(toCall) == toCall

\* del self._toCall[:]
ToCallAfterFlip(toCall) == <<>>

\* the entries flip() logs, in order, and the queue after del self._toLog[:]
LoggedByFlip(toLog) == toLog
ToLogAfterFlip(toLog) == <<>>

\* flip(): if currWindow != self: self.winHandle.switch_to(); currWindow = self
\* the context that is active when the buffers are swapped
ContextAtSwap(w, cw, ctx) == IF cw # w THEN w ELSE ctx
CurrWindowAfterFlip(w, cw) == IF cw # w THEN w ELSE cw

\* Window.fps: self.frames / self.frameClock.getTime(), in Hz
FpsValue(w, now) ==
    [kind |-> "fps",
     num |-> Frac(MsPerSecond * w.frames, now - w.frameClock).num,
     den |-> Frac(MsPerSecond * w.frames, now - w.frameClock).den]

\* Window.fps: the window when it returns
FpsWin(w, now) == [w EXCEPT !.frameClock = now, !.frames = 0]

\* variant: clearing keeps the most recent sample
SaveFrameIntervals_keepLast(w, clear, now) ==
    IF clear
    THEN [w EXCEPT !.frameIntervals = IF @ = <<>> THEN @ ELSE LastN(@, 1),
                   !.frameClock = now]
    ELSE w

\* Window.saveFrameIntervals
SaveFrameIntervals(w, clear, now) ==
    IF clear THEN [w EXCEPT !.frameIntervals = <<>>, !.frameClock = now] ELSE w

(* Window.multiFlip *)

\* variant: range(flips) flips before the last one
MultiFlipClearBuffers_oneMore(flips, clearBuffer) ==
    [i \in 1..flips |-> FALSE] \o <<clearBuffer>>

\* the clearBuffer argument of each flip: range(flips-1) flips, then one more
MultiFlipClearBuffers(flips, clearBuffer) ==
    [i \in 1..(flips - 1) |-> FALSE] \o <<clearBuffer>>

\* the window, the log, the clock and the queue after one flip() per
\* duration of ds, and the entries those flips called
RECURSIVE Flips(_, _, _, _, _)
Flips(w, l, now, ds, toCall) ==
    IF ds = <<>>
    THEN [win |-> w, log |-> l, clock |-> now, toCall |-> toCall, called |-> <<>>]
    ELSE LET rest == Flips(Flip(w, now + Head(ds)), FlipLog(w, l, now + Head(ds)),
                           now + Head(ds), Tail(ds), ToCallAfterFlip(toCall))
         IN  [rest EXCEPT !.called = CalledByFlip(toCall) \o @]

(* Window.getActualFrameRate *)

ParamsValid(nIdentical, nMaxFrames) == ~(nIdentical > nMaxFrames)

\* variant: recording is switched off before the parameters are checked
EnterWin_offBeforeCheck(w, nIdentical, nMaxFrames, now) ==
    SetRecordFrameIntervals(w, FALSE, now)

\* variant: recording is not switched off for the warm-up
EnterWin_noSwitchOff(w, nIdentical, nMaxFrames, now) == w

\* the window when the warm-up loop is about to start, or when the call raised
EnterWin(w, nIdentical, nMaxFrames, now) ==
    IF ParamsValid(nIdentical, nMaxFrames)
    THEN SetRecordFrameIntervals(w, FALSE, now)
    ELSE w

\* variant: one sample more than nIdentical is waited for
Converged_oneMore(frameIntervals, nIdentical, threshold) ==
    /\ Len(frameIntervals) > nIdentical
    /\ StdBelow(LastN(frameIntervals, nIdentical), threshold)

\* the test made after each flip of the measuring loop
Converged(frameIntervals, nIdentical, threshold) ==
    /\ Len(frameIntervals) >= nIdentical
    /\ StdBelow(LastN(frameIntervals, nIdentical), threshold)

\* variant: the mean is taken over every sample recorded so far
MeasuredRate_allSamples(frameIntervals, nIdentical) == RateOf(frameIntervals)

MeasuredRate(frameIntervals, nIdentical) == RateOf(LastN(frameIntervals, nIdentical))

\* the window when the call returns a rate: w is the window after the last flip
ReturnRateWin(w, recordFrmIntsOrig, now) ==
    [SetRecordFrameIntervals(w, recordFrmIntsOrig, now) EXCEPT !.frameIntervals = <<>>]

(* Window.__init__, after the measurement (window.py 337-346) *)

\* variant: without a measured rate the threshold keeps its initial value
FinishInit_noFallback(w, doCheck, rate) ==
    LET measured == IF doCheck THEN rate ELSE w._monitorFrameRate IN
    IF measured.kind = "rate"
    THEN [w EXCEPT !._monitorFrameRate = measured,
                   !.monitorFramePeriod = Frac(MsPerSecond * measured.den, measured.num),
                   !._refreshThreshold =
                       Frac(MsPerSecond * measured.den * Tolerance.num,
                            measured.num * Tolerance.den)]
    ELSE [w EXCEPT !._monitorFrameRate = measured]

FinishInit(w, doCheck, rate) ==
    LET measured == IF doCheck THEN rate ELSE w._monitorFrameRate IN
    IF measured.kind = "rate"
    THEN [w EXCEPT !._monitorFrameRate = measured,
                   !.monitorFramePeriod = Frac(MsPerSecond * measured.den, measured.num),
                   !._refreshThreshold =
                       Frac(MsPerSecond * measured.den * Tolerance.num,
                            measured.num * Tolerance.den)]
    ELSE [w EXCEPT !._monitorFrameRate = measured,
                   !._refreshThreshold =
                       Frac(MsPerSecond * Tolerance.num, FlatPanelRate * Tolerance.den)]

----------------------------------------------------------------------------
(* Unit conversions of monitorunittools.                                   *)
(*                                                                         *)
(* Numbers are exact rationals [num, den] in lowest terms.  An array is    *)
(* [kind |-> "array", shape, data] with the shape tuple of numpy and the   *)
(* elements in row-major order; a raised exception is a value of kind      *)
(* "ValueError" or "TypeError" with the text that tells the errors apart.  *)
(* radians, tan, hypot and arctan are numpy's functions, tabulated to six  *)
(* digits at the arguments the inputs produce.                             *)

Abs(n) == IF n < 0 THEN -n ELSE n
Max(a, b) == IF a < b THEN b ELSE a

Q(n) == [num |-> n, den |-> 1]
QNeg(a) == [num |-> -a.num, den |-> a.den]
QAdd(a, b) ==
    LET g == GCD(a.den, b.den) IN
    Frac(a.num * (b.den \div g) + b.num * (a.den \div g), (a.den \div g) * b.den)
QSub(a, b) == QAdd(a, QNeg(b))
QMul(a, b) ==
    LET g1 == GCD(Abs(a.num), b.den)
        g2 == GCD(Abs(b.num), a.den)
    IN  Frac((a.num \div g1) * (b.num \div g2), (a.den \div g2) * (b.den \div g1))
\* a / b for b # 0
QDiv(a, b) ==
    IF b.num > 0 THEN Frac(a.num * b.den, a.den * b.num)
    ELSE Frac(-(a.num * b.den), a.den * (-b.num))
QAbs(a) == [num |-> Abs(a.num), den |-> a.den]
QLe(a, b) == a.num * b.den <= b.num * a.den

\* the size of one degree at the screen centre, per cm of distance: 0.017455
DegSize == Frac(17455, 1000000)

\* numpy.radians: pi/180 = 0.0174533
RadiansPerDegree == Frac(71, 4068)
Radians(q) == QMul(q, RadiansPerDegree)

\* the square root of 2 = 1.414213
Sqrt2 == Frac(1393, 985)

\* numpy.tan at the angles 0 and +-45 degrees
Tan(r) ==
    CASE r.num = 0 -> Q(0)
      [] r = Radians(Q(45)) -> Q(1)
      [] r = Radians(Q(-45)) -> Q(-1)

\* numpy.hypot(a, b) for b = 0 and for |b| = |a|
Hypot(a, b) ==
    CASE b.num = 0 -> QAbs(a)
      [] QAbs(b) = QAbs(a) -> QMul(QAbs(a), Sqrt2)

\* numpy.arctan(y) for |y| <= 1/20, where arctan(y) = y to within 0.00005
Arctan(y) ==
    CASE QLe(QAbs(y), Frac(1, 20)) -> y

Arr(shape, data) == [kind |-> "array", msg |-> "", shape |-> shape, data |-> data]
Scalar(q) == Arr(<<>>, <<q>>)
Raise(kind, msg) == [kind |-> kind, msg |-> msg, shape |-> <<>>, data |-> <<>>]

Rows(a) == IF Len(a.shape) = 2 THEN a.shape[1] ELSE 1
Cols(a) == IF Len(a.shape) = 0 THEN 1 ELSE a.shape[Len(a.shape)]

\* the element that numpy's broadcasting pairs with position (r, c)
At(a, r, c) ==
    a.data[((IF Rows(a) = 1 THEN 1 ELSE r) - 1) * Cols(a)
             + (IF Cols(a) = 1 THEN 1 ELSE c)]

BroadcastShape(a, b) ==
    LET nd == Max(Len(a.shape), Len(b.shape)) IN
    IF nd = 0 THEN <<>>
    ELSE IF nd = 1 THEN <<Max(Cols(a), Cols(b))>>
    ELSE <<Max(Rows(a), Rows(b)), Max(Cols(a), Cols(b))>>

Broadcastable(a, b) ==
    /\ Rows(a) = Rows(b) \/ Rows(a) = 1 \/ Rows(b) = 1
    /\ Cols(a) = Cols(b) \/ Cols(a) = 1 \/ Cols(b) = 1

\* a + b
Add(a, b) ==
    IF ~Broadcastable(a, b)
    THEN Raise("ValueError", "operands could not be broadcast together")
    ELSE LET C == Max(Cols(a), Cols(b))
             R == Max(Rows(a), Rows(b))
         IN  Arr(BroadcastShape(a, b),
                 [i \in 1..(R * C) |->
                     QAdd(At(a, ((i - 1) \div C) + 1, ((i - 1) % C) + 1),
                          At(b, ((i - 1) \div C) + 1, ((i - 1) % C) + 1))])

\* a * b, element by element
Times(a, b) ==
    IF ~Broadcastable(a, b)
    THEN Raise("ValueError", "operands could not be broadcast together")
    ELSE LET C == Max(Cols(a), Cols(b))
             R == Max(Rows(a), Rows(b))
         IN  Arr(BroadcastShape(a, b),
                 [i \in 1..(R * C) |->
                     QMul(At(a, ((i - 1) \div C) + 1, ((i - 1) % C) + 1),
                          At(b, ((i - 1) \div C) + 1, ((i - 1) % C) + 1))])

\* a * q for a number q
Scale(a, q) == Arr(a.shape, [i \in 1..Len(a.data) |-> QMul(a.data[i], q)])

\* numpy.radians(a)
RadiansOf(a) == Arr(a.shape, [i \in 1..Len(a.data) |-> Radians(a.data[i])])

\* numpy.arctan(numpy.radians(cm/dist))
ArctanRadiansOf(cm, dist) ==
    Arr(cm.shape, [i \in 1..Len(cm.data) |-> Arctan(Radians(QDiv(cm.data[i], dist)))])

(* cm2deg *)

\* variant: a distance that is not known is taken to be 57 cm
cm2deg_assumedDistance(cm, monitor, correctFlat) ==
    LET dist == IF monitor.distance = <<>> THEN Q(57) ELSE Q(monitor.distance[1])
    IN  IF correctFlat
        THEN ArctanRadiansOf(cm, dist)
        ELSE Scale(cm, QDiv(Q(1), QMul(dist, DegSize)))

cm2deg(cm, monitor, correctFlat) ==
    IF monitor.distance = <<>>
    THEN Raise("ValueError", "no known distance")
    ELSE LET dist == Q(monitor.distance[1])
         IN  IF correctFlat
             THEN ArctanRadiansOf(cm, dist)
             ELSE Scale(cm, QDiv(Q(1), QMul(dist, DegSize)))

(* deg2cm *)

\* "... not %s" % degrees.shape: the shape tuple is the argument tuple of
\* the format, which has one %s
ShapeError(shape) ==
    IF Len(shape) = 1
    THEN Raise("ValueError", "degrees arg must have shape [N,2]")
    ELSE Raise("TypeError", "string formatting")

deg2cm(degrees, monitor, correctFlat) ==
    IF monitor.distance = <<>>
    THEN Raise("ValueError", "no known distance")
    ELSE LET dist == Q(monitor.distance[1])
             rads == RadiansOf(degrees)
         IN  IF correctFlat
             THEN IF Len(degrees.shape) < 2 \/ degrees.shape[2] # 2
                  THEN ShapeError(degrees.shape)
                  ELSE Arr(degrees.shape,
                           [i \in 1..Len(rads.data) |->
                               IF i % 2 = 1
                               THEN QMul(Hypot(dist, QMul(Tan(rads.data[i + 1]), dist)),
                                         Tan(rads.data[i]))
                               ELSE QMul(Hypot(dist, QMul(Tan(rads.data[i - 1]), dist)),
                                         Tan(rads.data[i]))])
             ELSE Scale(degrees, QMul(dist, DegSize))

(* cm2pix, pix2cm *)
cm2pix(cm, monitor) ==
    IF monitor.sizePix = <<>> THEN Raise("ValueError", "no known size in pixels")
    ELSE IF monitor.width = <<>> THEN Raise("ValueError", "no known width in cm")
    ELSE Scale(cm, Frac(monitor.sizePix[1], monitor.width[1]))

\* variant: the height in pixels is used instead of the width
pix2cm_byHeight(pixels, monitor) ==
    IF monitor.sizePix = <<>> THEN Raise("ValueError", "no known size in pixels")
    ELSE IF monitor.width = <<>> THEN Raise("ValueError", "no known width in cm")
    ELSE Scale(pixels, Frac(monitor.width[1], monitor.sizePix[2]))

pix2cm(pixels, monitor) ==
    IF monitor.sizePix = <<>> THEN Raise("ValueError", "no known size in pixels")
    ELSE IF monitor.width = <<>> THEN Raise("ValueError", "no known width in cm")
    ELSE Scale(pixels, Frac(monitor.width[1], monitor.sizePix[1]))

(* deg2pix, pix2deg *)
deg2pix(degrees, monitor, correctFlat) ==
    IF monitor.sizePix = <<>> THEN Raise("ValueError", "no known size in pixels")
    ELSE IF monitor.width = <<>> THEN Raise("ValueError", "no known width in cm")
    ELSE LET cmSize == deg2cm(degrees, monitor, correctFlat) IN
         IF cmSize.kind # "array" THEN cmSize
         ELSE Scale(cmSize, Frac(monitor.sizePix[1], monitor.width[1]))

pix2deg(pixels, monitor, correctFlat) ==
    IF monitor.sizePix = <<>> THEN Raise("ValueError", "no known size in pixels")
    ELSE IF monitor.width = <<>> THEN Raise("ValueError", "no known width in cm")
    ELSE cm2deg(Scale(pixels, Frac(monitor.width[1], monitor.sizePix[1])),
                monitor, correctFlat)

----------------------------------------------------------------------------
(* The unit registry of monitorunittools *)

BuiltinUnits == {"pix", "cm", "deg", "degFlatPos", "degFlat", "norm", "height"}

\* the mapping function the module registers under each built-in name
BuiltinMapping(u) ==
    CASE u = "pix"        -> "_pix2pix"
      [] u = "cm"         -> "_cm2pix"
      [] u = "deg"        -> "_deg2pix"
      [] u = "degFlatPos" -> "_degFlatPos2pix"
      [] u = "degFlat"    -> "_degFlat2pix"
      [] u = "norm"       -> "_norm2pix"
      [] u = "height"     -> "_height2pix"

InitMappings == [u \in BuiltinUnits |-> BuiltinMapping(u)]

\* names and mapping functions user code may pass
UnitLabels   == BuiltinUnits \cup {"polar", "retino"}
UserMappings == {"polar2pix", "retino2pix"}

\* the global names monitorunittools defines that hold a registry
RegistryNames == {"_unit2PixMappings"}

\* addUnitTypeConversion reads the global name unit2PixMappings
AddUnitTypeConversionOutcome(mappings, unit_label, mapping_func) ==
    IF "unit2PixMappings" \notin RegistryNames
    THEN [outcome |-> "NameError", mappings |-> mappings]
    ELSE IF unit_label \in DOMAIN mappings
         THEN [outcome |-> "ValueError", mappings |-> mappings]
         ELSE [outcome |-> "ok",
               mappings |-> [u \in DOMAIN mappings \cup {unit_label} |->
                                IF u = unit_label THEN mapping_func ELSE mappings[u]]]

\* variant: a unit that is not registered is treated as pixels
ConvertToPixOutcome_defaultPix(mappings, units) ==
    IF units \in DOMAIN mappings
    THEN [outcome |-> "called", func |-> mappings[units]]
    ELSE [outcome |-> "called", func |-> "_pix2pix"]

\* convertToPix: which mapping function is called, or the error raised
ConvertToPixOutcome(mappings, units) ==
    IF units \in DOMAIN mappings
    THEN [outcome |-> "called", func |-> mappings[units]]
    ELSE [outcome |-> "ValueError", func |-> "none"]


(* The mapping functions registered under the built-in unit names *)

_pix2pix(vertices, pos, window) == Add(pos, vertices)

_cm2pix(vertices, pos, window) == cm2pix(Add(pos, vertices), window.monitor)

_deg2pix(vertices, pos, window) == deg2pix(Add(pos, vertices), window.monitor, FALSE)

_degFlatPos2pix(vertices, pos, window) ==
    LET posCorrected == deg2pix(pos, window.monitor, TRUE) IN
    IF posCorrected.kind # "array" THEN posCorrected
    ELSE LET verticesPix == deg2pix(vertices, window.monitor, FALSE) IN
         IF verticesPix.kind # "array" THEN verticesPix
         ELSE Add(posCorrected, verticesPix)

_degFlat2pix(vertices, pos, window) == deg2pix(Add(pos, vertices), window.monitor, TRUE)

\* variant: the origin of the normalised space is the corner of the window
_norm2pix_cornerOrigin(vertices, pos, window) ==
    Times(Add(Add(pos, vertices), Scalar(Q(1))),
          Arr(<<2>>, <<Frac(window.size[1], 2), Frac(window.size[2], 2)>>))

\* (pos+vertices) * win.size/2.0
_norm2pix(vertices, pos, window) ==
    Times(Add(pos, vertices),
          Arr(<<2>>, <<Frac(window.size[1], 2), Frac(window.size[2], 2)>>))

\* (pos+vertices) * win.size[1]
_height2pix(vertices, pos, window) == Scale(Add(pos, vertices), Q(window.size[2]))

\* unit2pix_func(vertices, pos, win)
Apply(func, vertices, pos, window) ==
    CASE func = "_pix2pix"        -> _pix2pix(vertices, pos, window)
      [] func = "_cm2pix"         -> _cm2pix(vertices, pos, window)
      [] func = "_deg2pix"        -> _deg2pix(vertices, pos, window)
      [] func = "_degFlatPos2pix" -> _degFlatPos2pix(vertices, pos, window)
      [] func = "_degFlat2pix"    -> _degFlat2pix(vertices, pos, window)
      [] func = "_norm2pix"       -> _norm2pix(vertices, pos, window)
      [] func = "_height2pix"     -> _height2pix(vertices, pos, window)
      [] OTHER                    -> [kind |-> "user", msg |-> func,
                                      shape |-> <<>>, data |-> <<>>]

\* convertToPix: the value returned or the exception raised
ConvertToPixResult(mappings, vertices, pos, units, window) ==
    LET r == ConvertToPixOutcome(mappings, units) IN
    IF r.outcome = "called"
    THEN Apply(r.func, vertices, pos, window)
    ELSE Raise("ValueError", "not registered")

\* the stand-alone conversion functions
ConversionNames == {"cm2deg", "deg2cm", "cm2pix", "pix2cm", "deg2pix", "pix2deg"}

ConversionResult(name, x, monitor, correctFlat) ==
    CASE name = "cm2deg"  -> cm2deg(x, monitor, correctFlat)
      [] name = "deg2cm"  -> deg2cm(x, monitor, correctFlat)
      [] name = "cm2pix"  -> cm2pix(x, monitor)
      [] name = "pix2cm"  -> pix2cm(x, monitor)
      [] name = "deg2pix" -> deg2pix(x, monitor, correctFlat)
      [] name = "pix2deg" -> pix2deg(x, monitor, correctFlat)

(* Inputs of the conversions *)

\* values in degrees, cm or pixels; the rows of vertices and the positions
\* are such that position + vertex is an angle between -45 and 45 degrees
ValueSet == {-45, 0, 45}
RowSet == {<<0, 0>>, <<45, 0>>, <<0, -45>>, <<45, -45>>}
PosRowSet == {<<0, 0>>, <<-45, 0>>, <<0, 45>>, <<-45, 45>>}

\* arrays of shape (N,2), (n,) and (N,1)
NxTwo ==
    UNION { { Arr(<<N, 2>>, [i \in 1..(2 * N) |->
                               Q(f[((i - 1) \div 2) + 1][((i - 1) % 2) + 1])]) :
              f \in [1..N -> RowSet] } : N \in 1..MaxRows }
OneD ==
    UNION { { Arr(<<n>>, [i \in 1..n |-> Q(f[i])]) : f \in [1..n -> ValueSet] } :
            n \in 1..MaxRows }
NxOne ==
    UNION { { Arr(<<n, 1>>, [i \in 1..n |-> Q(f[i])]) : f \in [1..n -> ValueSet] } :
            n \in 1..MaxRows }

VerticesSet == NxTwo \cup {Scalar(Q(0))}

\* a position: 0, one (x, y) pair, or one row of an (N,2) array
PosSet ==
    {Scalar(Q(0))}
      \cup { Arr(<<2>>, <<Q(r[1]), Q(r[2])>>) : r \in PosRowSet }
      \cup { Arr(<<1, 2>>, <<Q(r[1]), Q(r[2])>>) : r \in PosRowSet }

\* monitor calibrations; <<>> is a field that is not known (None)
Monitors ==
    { [width |-> w, sizePix |-> sz, distance |-> d] :
        w \in {<<>>, <<40>>, <<30>>}, sz \in {<<>>, <<800, 600>>},
        d \in {<<>>, <<50>>, <<57>>} }

Wins == { [size |-> <<800, 600>>, monitor |-> m] : m \in Monitors }

NoConv == [call |-> "none", x |-> Scalar(Q(0)), pos |-> Scalar(Q(0)),
           units |-> "none", win |-> [size |-> <<800, 600>>,
                                      monitor |-> [width |-> <<>>, sizePix |-> <<>>,
                                                   distance |-> <<>>]],
           correctFlat |-> FALSE, result |-> Raise("none", ""), done |-> FALSE]

\* the arguments of the stand-alone conversion functions
ConversionArgs == NxTwo \cup OneD \cup NxOne \cup {Scalar(Q(v)) : v \in ValueSet}

----------------------------------------------------------------------------
(* Stimuli: MinimalStim and BaseVisualStim of basevisual.py.  A stimulus   *)
(* is known by its index in stims; it is created with autoLog=False.       *)

\* what a stimulus reads from its window: size, monitor and units
WindowOf(w) ==
    [ size |-> IF w = "win" THEN <<800, 600>> ELSE <<400, 300>>,
      monitor |-> [width |-> <<40>>, sizePix |-> <<800, 600>>, distance |-> <<57>>],
      units |-> IF w = "win" THEN "norm" ELSE "pix" ]

\* no vertices computed yet
NoVertices == Raise("none", "")

\* the units, positions, sizes, orientations and depths user code gives
StimUnits == {"None", "norm", "pix", "height"}
StimPositions == { Arr(<<2>>, <<Q(0), Q(0)>>), Arr(<<2>>, <<Q(1), Q(-1)>>) }
StimSizes == { Arr(<<2>>, <<Q(1), Q(1)>>), Arr(<<2>>, <<Q(2), Q(1)>>) }
StimOris == {0, 90}
StimDepths == {0, 1}

\* self._verticesBase = [[0.5,-0.5],[-0.5,-0.5],[-0.5,0.5],[0.5,0.5]]
_verticesBase ==
    Arr(<<4, 2>>, << Frac(1, 2), QNeg(Frac(1, 2)), QNeg(Frac(1, 2)), QNeg(Frac(1, 2)),
                     QNeg(Frac(1, 2)), Frac(1, 2), Frac(1, 2), Frac(1, 2) >>)

\* the units setter: None stands for the units of the window
UnitsValue(value, w) == IF value = "None" THEN WindowOf(w).units ELSE value

\* the stimulus when its __init__ has run: the setters of size and pos have
\* flagged the vertices for an update and none have been computed
InitStim(w, units, pos, size, ori, depth) ==
    [ win |-> w, units |-> UnitsValue(units, w), pos |-> pos, size |-> size,
      ori |-> ori, depth |-> depth, status |-> "NOT_STARTED", autoDraw |-> FALSE,
      _needVertexUpdate |-> TRUE, verticesPix |-> NoVertices ]

\* the ori setter: [[cos, -sin], [sin, cos]] of the angle, row by row
_rotationMatrix(ori) ==
    IF ori = 0 THEN <<Q(1), Q(0), Q(0), Q(1)>> ELSE <<Q(0), Q(-1), Q(1), Q(0)>>

\* numpy.dot(verts, m) for verts of shape (N,2) and a 2x2 matrix m
Dot(verts, m) ==
    Arr(verts.shape,
        [i \in 1..Len(verts.data) |->
            LET r == ((i - 1) \div 2) * 2
                c == ((i - 1) % 2) + 1
            IN  QAdd(QMul(verts.data[r + 1], m[c]), QMul(verts.data[r + 2], m[2 + c]))])

\* _updateVertices: the vertices in pixels of the stimulus as it is now
VerticesOf(stim, mappings) ==
    ConvertToPixResult(mappings,
                       Dot(Times(stim.size, _verticesBase), _rotationMatrix(stim.ori)),
                       stim.pos, stim.units, WindowOf(stim.win))

\* the verticesPix property: the stimulus after the read
ReadVerticesPix(stim, mappings) ==
    IF stim._needVertexUpdate
    THEN [stim EXCEPT !.verticesPix = VerticesOf(stim, mappings),
                      !._needVertexUpdate = FALSE]
    ELSE stim

\* the setters of BaseVisualStim
SetPos(stim, value)  == [stim EXCEPT !.pos = value, !._needVertexUpdate = TRUE]
SetSize(stim, value) == [stim EXCEPT !.size = value, !._needVertexUpdate = TRUE]
SetOri(stim, value)  == [stim EXCEPT !.ori = value, !._needVertexUpdate = TRUE]
SetWin(stim, value)  == [stim EXCEPT !.win = value]
\* units: the value is stored, then self.size = self.size; self.pos = self.pos
SetUnits(stim, value) ==
    SetPos(SetSize([stim EXCEPT !.units = UnitsValue(value, stim.win)], stim.size),
           stim.pos)

\* self in toDraw
BeingDrawn(i, toDraw) == \E k \in 1..Len(toDraw) : toDraw[k] = i

\* list.insert(k, x) with k counted from 1
Insert(list, k, x) == SubSeq(list, 1, k - 1) \o <<x>> \o SubSeq(list, k, Len(list))

\* list.pop(k) with k counted from 1
Pop(list, k) == SubSeq(list, 1, k - 1) \o SubSeq(list, k + 1, Len(list))

\* list.index(x) counted from 1, for x in list
IndexOf(list, x) == CHOOSE k \in 1..Len(list) :
                        list[k] = x /\ \A j \in 1..(k - 1) : list[j] # x

\* variant: the places of the stimuli that are no deeper
Iis_orEqual(toDrawDepths, depth) ==
    {k \in 1..Len(toDrawDepths) : toDrawDepths[k] <= depth}

\* numpy.where(depthArray < self.depth)[0], counted from 1
Iis(toDrawDepths, depth) ==
    {k \in 1..Len(toDrawDepths) : toDrawDepths[k] < depth}

\* iis[0]
First(iis) == CHOOSE k \in iis : \A j \in iis : k <= j

\* variant: switching off always stops the stimulus
AutoDraw_alwaysStops(stim, i, toDraw, toDrawDepths, value) ==
    LET iis == Iis(toDrawDepths, stim.depth) IN
    IF value = BeingDrawn(i, toDraw)
    THEN [toDraw |-> toDraw, toDrawDepths |-> toDrawDepths,
          status |-> IF value THEN stim.status ELSE "STOPPED"]
    ELSE IF value
    THEN IF iis # {}
         THEN [toDraw |-> Insert(toDraw, First(iis), i),
               toDrawDepths |-> Insert(toDrawDepths, First(iis), stim.depth),
               status |-> "STARTED"]
         ELSE [toDraw |-> Append(toDraw, i),
               toDrawDepths |-> Append(toDrawDepths, stim.depth),
               status |-> "STARTED"]
    ELSE [toDraw |-> Pop(toDraw, IndexOf(toDraw, i)),
          toDrawDepths |-> Pop(toDrawDepths, IndexOf(toDraw, i)),
          status |-> "STOPPED"]

\* the autoDraw setter of stimulus i on the lists of its window: the lists
\* and the status when it returns
AutoDraw(stim, i, toDraw, toDrawDepths, value) ==
    LET iis == Iis(toDrawDepths, stim.depth) IN
    IF value = BeingDrawn(i, toDraw)
    THEN [toDraw |-> toDraw, toDrawDepths |-> toDrawDepths, status |-> stim.status]
    ELSE IF value
    THEN IF iis # {}
         THEN [toDraw |-> Insert(toDraw, First(iis), i),
               toDrawDepths |-> Insert(toDrawDepths, First(iis), stim.depth),
               status |-> "STARTED"]
         ELSE [toDraw |-> Append(toDraw, i),
               toDrawDepths |-> Append(toDrawDepths, stim.depth),
               status |-> "STARTED"]
    ELSE [toDraw |-> Pop(toDraw, IndexOf(toDraw, i)),
          toDrawDepths |-> Pop(toDrawDepths, IndexOf(toDraw, i)),
          status |-> "STOPPED"]

----------------------------------------------------------------------------
(* Initial state: Window.__init__ has set the timing fields and is about   *)
(* to decide whether to measure the refresh rate.                          *)

NoCall == [nIdentical |-> 0, nMaxFrames |-> 0, nWarmUpFrames |-> 0, threshold |-> 0,
           recordFrmIntsOrig |-> FALSE, warmUpFrameN |-> 0, frameN |-> 0]

NoUnitCall == [op |-> "none", units |-> "none", func |-> "none",
               outcome |-> "none", n |-> 0]

NoFlips == [flips |-> 0, arg |-> TRUE, clearBuffer |-> <<>>, called |-> <<>>,
            logged |-> <<>>, drawn |-> <<>>, error |-> FALSE]

NoSwap == [window |-> "None", context |-> "None"]

NoStimCall == [op |-> "none", stim |-> 0, value |-> FALSE, updated |-> FALSE,
               returned |-> NoVertices]

\* the window has its GL context, which creating it made the active one;
\* no stimulus exists yet and nothing is queued
InitScene ==
    /\ _toLog = <<>>
    /\ openWindows = <<>>
    /\ currWindow = "None"
    /\ basevisual_currWindow = "None"
    /\ context = "win"
    /\ swapped = NoSwap
    /\ stims = <<>>
    /\ stimCall = NoStimCall
    /\ _toDraw = [w \in Windows |-> <<>>]
    /\ _toDrawDepths = [w \in Windows |-> <<>>]

Init ==
    /\ clock = 0
    /\ win = InitWin(0)
    /\ log = InitLog
    /\ pc = "construct"
    /\ constructed = FALSE
    /\ checkTiming \in BOOLEAN
    /\ swapSource \in StartupSources
    /\ call = NoCall
    /\ ret = Pending
    /\ nFlips = 0
    /\ _unit2PixMappings = InitMappings
    /\ unitCall = NoUnitCall
    /\ conv = NoConv
    /\ _toCall = <<>>
    /\ flipped = NoFlips
    /\ sinceFps = [flips |-> 0, t |-> 0]
    /\ InitScene

----------------------------------------------------------------------------
(* Steps of getActualFrameRate *)

\* what every flip() of the window does besides the timing bookkeeping: the
\* stimuli of _toDraw are drawn, the context is made the window's own if
\* currWindow is another window, the buffers are swapped, the queued entries
\* are called and the queued messages logged, and both queues are emptied
FlipCallbacks(clearBuffer) ==
    /\ flipped' = [flips |-> 1, arg |-> clearBuffer, clearBuffer |-> <<clearBuffer>>,
                   called |-> CalledByFlip(_toCall),
                   logged |-> LoggedByFlip(_toLog),
                   drawn |-> _toDraw["win"], error |-> FALSE]
    /\ _toCall' = ToCallAfterFlip(_toCall)
    /\ _toLog' = ToLogAfterFlip(_toLog)
    /\ sinceFps' = [sinceFps EXCEPT !.flips = @ + 1]
    /\ context' = ContextAtSwap("win", currWindow, context)
    /\ currWindow' = CurrWindowAfterFlip("win", currWindow)
    /\ swapped' = [window |-> "win",
                   context |-> ContextAtSwap("win", currWindow, context)]
    /\ UNCHANGED <<openWindows, basevisual_currWindow, stimVars>>

ReturnPc == IF constructed THEN "ready" ELSE "returned"

\* the call: the parameter check and setRecordFrameIntervals(False)
Enter(nIdentical, nMaxFrames, nWarmUpFrames, threshold) ==
    /\ win' = EnterWin(win, nIdentical, nMaxFrames, clock)
    /\ IF ParamsValid(nIdentical, nMaxFrames)
       THEN /\ pc' = "warmup"
            /\ ret' = Pending
            /\ call' = [nIdentical |-> nIdentical, nMaxFrames |-> nMaxFrames,
                        nWarmUpFrames |-> nWarmUpFrames, threshold |-> threshold,
                        recordFrmIntsOrig |-> win.recordFrameIntervals,
                        warmUpFrameN |-> 0, frameN |-> 0]
       ELSE /\ pc' = pc
            /\ ret' = ValueError
            /\ call' = [nIdentical |-> nIdentical, nMaxFrames |-> nMaxFrames,
                        nWarmUpFrames |-> nWarmUpFrames, threshold |-> threshold,
                        recordFrmIntsOrig |-> FALSE,
                        warmUpFrameN |-> 0, frameN |-> 0]
    /\ flipped' = NoFlips
    /\ UNCHANGED <<clock, log, _toCall, _toLog, sinceFps, glVars, stimVars>>

CountFlip == nFlips' = IF constructed THEN nFlips + 1 ELSE nFlips

\* one pass of the warm-up loop
WarmUpFlip ==
    /\ pc = "warmup"
    /\ call.warmUpFrameN < call.nWarmUpFrames
    /\ FlipReturns(_toCall)
    /\ \E d \in SwapChoices(swapSource, call.warmUpFrameN) :
          /\ clock' = clock + d
          /\ win' = Flip(win, clock + d)
          /\ log' = FlipLog(win, log, clock + d)
    /\ call' = [call EXCEPT !.warmUpFrameN = @ + 1]
    /\ CountFlip
    /\ FlipCallbacks(TRUE)
    /\ UNCHANGED <<pc, constructed, checkTiming, swapSource, ret, unitVars>>

\* the warm-up loop is over: setRecordFrameIntervals(True)
StartTest ==
    /\ pc = "warmup"
    /\ call.warmUpFrameN = call.nWarmUpFrames
    /\ win' = SetRecordFrameIntervals(win, TRUE, clock)
    /\ pc' = "test"
    /\ UNCHANGED <<clock, log, constructed, checkTiming, swapSource, call, ret,
                   nFlips, unitVars, flipVars, glVars, stimVars>>

\* one pass of the measuring loop: a flip, the test, and the return if it passes
TestFlip ==
    /\ pc = "test"
    /\ call.frameN < call.nMaxFrames
    /\ FlipReturns(_toCall)
    /\ \E d \in SwapChoices(swapSource, call.frameN) :
          LET now == clock + d
              w   == Flip(win, now)
          IN  /\ clock' = now
              /\ log' = FlipLog(win, log, now)
              /\ IF Converged(w.frameIntervals, call.nIdentical, call.threshold)
                 THEN /\ ret' = MeasuredRate(w.frameIntervals, call.nIdentical)
                      /\ win' = ReturnRateWin(w, call.recordFrmIntsOrig, now)
                      /\ pc' = ReturnPc
                 ELSE /\ ret' = ret
                      /\ win' = w
                      /\ pc' = pc
    /\ call' = [call EXCEPT !.frameN = @ + 1]
    /\ CountFlip
    /\ FlipCallbacks(TRUE)
    /\ UNCHANGED <<constructed, checkTiming, swapSource, unitVars>>

\* the measuring loop ran out: the warning, and None
GiveUp ==
    /\ pc = "test"
    /\ call.frameN = call.nMaxFrames
    /\ log' = [log EXCEPT !.noConsistentRate = @ + 1]
    /\ ret' = None
    /\ pc' = ReturnPc
    /\ UNCHANGED <<clock, win, constructed, checkTiming, swapSource, call,
                   nFlips, unitVars, flipVars, glVars, stimVars>>

Measure == WarmUpFlip \/ StartTest \/ TestFlip \/ GiveUp

----------------------------------------------------------------------------
(* Window.__init__ *)

\* if checkTiming: self._monitorFrameRate = self.getActualFrameRate()
ConstructMeasure ==
    /\ pc = "construct"
    /\ checkTiming
    /\ Enter(DefaultNIdentical, DefaultNMaxFrames, DefaultNWarmUpFrames, DefaultThreshold)
    /\ UNCHANGED <<constructed, checkTiming, swapSource, nFlips, unitVars>>

\* the rest of __init__
ConstructFinish ==
    /\ ~constructed
    /\ \/ pc = "construct" /\ ~checkTiming
       \/ pc = "returned"
    /\ win' = FinishInit(win, checkTiming, ret)
    /\ constructed' = TRUE
    /\ pc' = "ready"
    /\ swapSource' = "free"
    /\ ret' = Pending
    /\ call' = NoCall
    /\ currWindow' = "win"
    /\ openWindows' = Append(openWindows, "win")
    /\ UNCHANGED <<clock, log, checkTiming, nFlips, unitVars, flipVars,
                   basevisual_currWindow, context, swapped, stimVars>>

----------------------------------------------------------------------------
(* Calls made by user code on the constructed window *)

\* a flip() whose loop over _toCall has no end: the buffers were swapped and
\* the timestamp taken, the calls go on, and the bookkeeping and the log
\* messages that follow the loop are never reached
FlipHangs(clearBuffer) ==
    /\ pc' = "flip"
    /\ flipped' = [flips |-> 1, arg |-> clearBuffer, clearBuffer |-> <<clearBuffer>>,
                   called |-> CalledByFlip(_toCall), logged |-> <<>>,
                   drawn |-> _toDraw["win"], error |-> FALSE]
    /\ _toCall' = CallLoop(_toCall, 1, MaxCallsPerFlip).toCall
    /\ sinceFps' = [sinceFps EXCEPT !.flips = @ + 1]
    /\ context' = ContextAtSwap("win", currWindow, context)
    /\ currWindow' = CurrWindowAfterFlip("win", currWindow)
    /\ swapped' = [window |-> "win",
                   context |-> ContextAtSwap("win", currWindow, context)]
    /\ UNCHANGED <<win, log, _toLog, openWindows, basevisual_currWindow, stimVars>>

UserFlip ==
    /\ pc = "ready"
    /\ nFlips < MaxFlips
    /\ \E d \in SwapChoices(swapSource, 0) :
          /\ clock' = clock + d
          /\ IF FlipReturns(_toCall)
             THEN /\ win' = Flip(win, clock + d)
                  /\ log' = FlipLog(win, log, clock + d)
                  /\ pc' = pc
                  /\ FlipCallbacks(TRUE)
             ELSE FlipHangs(TRUE)
    /\ nFlips' = nFlips + 1
    /\ ret' = Pending
    /\ call' = NoCall
    /\ UNCHANGED <<constructed, checkTiming, swapSource, unitVars>>

UserSetRecordFrameIntervals ==
    /\ pc = "ready"
    /\ \E value \in BOOLEAN : win' = SetRecordFrameIntervals(win, value, clock)
    /\ ret' = Pending
    /\ call' = NoCall
    /\ flipped' = NoFlips
    /\ UNCHANGED <<clock, log, pc, constructed, checkTiming, swapSource,
                   nFlips, unitVars, _toCall, _toLog, sinceFps, glVars, stimVars>>

UserGetActualFrameRate ==
    /\ pc = "ready"
    /\ \E nIdentical \in NIdenticalSet, nMaxFrames \in NMaxFramesSet,
          nWarmUpFrames \in NWarmUpFramesSet, threshold \in ThresholdSet :
          /\ nFlips + nWarmUpFrames + nMaxFrames <= MaxFlips
          /\ Enter(nIdentical, nMaxFrames, nWarmUpFrames, threshold)
    /\ UNCHANGED <<constructed, checkTiming, swapSource, nFlips, unitVars>>

UserMultiFlip ==
    /\ pc = "ready"
    /\ FlipReturns(_toCall)
    /\ \E flips \in 0..MaxMultiFlips, clearBuffer \in BOOLEAN :
          LET cb == MultiFlipClearBuffers(flips, clearBuffer) IN
          /\ nFlips + Len(cb) <= MaxFlips
          /\ \E ds \in [1..Len(cb) -> SwapChoices(swapSource, 0)] :
                LET r == Flips(win, log, clock, ds, _toCall) IN
                /\ clock' = r.clock
                /\ win' = r.win
                /\ log' = r.log
                /\ _toCall' = r.toCall
                /\ flipped' = [flips |-> flips, arg |-> clearBuffer, clearBuffer |-> cb,
                               called |-> r.called,
                               logged |-> LoggedByFlip(_toLog),
                               drawn |-> _toDraw["win"], error |-> flips < 1]
          /\ nFlips' = nFlips + Len(cb)
          /\ sinceFps' = [sinceFps EXCEPT !.flips = @ + Len(cb)]
    /\ _toLog' = ToLogAfterFlip(_toLog)
    /\ context' = ContextAtSwap("win", currWindow, context)
    /\ currWindow' = CurrWindowAfterFlip("win", currWindow)
    /\ swapped' = [window |-> "win",
                   context |-> ContextAtSwap("win", currWindow, context)]
    /\ ret' = Pending
    /\ call' = NoCall
    /\ UNCHANGED <<pc, constructed, checkTiming, swapSource, unitVars,
                   openWindows, basevisual_currWindow, stimVars>>

\* callOnFlip with one of these entries
CallOnFlip(entries) ==
    /\ pc = "ready"
    /\ Len(_toCall) < MaxToCall
    /\ \E entry \in entries : _toCall' = Append(_toCall, entry)
    /\ flipped' = NoFlips
    /\ ret' = Pending
    /\ call' = NoCall
    /\ UNCHANGED <<clock, win, log, pc, constructed, checkTiming, swapSource,
                   nFlips, unitVars, _toLog, sinceFps, glVars, stimVars>>

\* logOnFlip(msg, level)
UserLogOnFlip ==
    /\ pc = "ready"
    /\ Len(_toLog) < MaxToLog
    /\ \E entry \in LogEntries : _toLog' = Append(_toLog, entry)
    /\ flipped' = NoFlips
    /\ ret' = Pending
    /\ call' = NoCall
    /\ UNCHANGED <<clock, win, log, pc, constructed, checkTiming, swapSource,
                   nFlips, unitVars, _toCall, sinceFps, glVars, stimVars>>

\* callOnFlip with a function that does not touch the window
UserCallOnFlip == CallOnFlip(CallEntries)

\* callOnFlip with any function, those that call callOnFlip included
UserCallOnFlipAny == CallOnFlip(CallEntries \cup RequeueEntries)

UserSaveFrameIntervals ==
    /\ pc = "ready"
    /\ \E clear \in BOOLEAN : win' = SaveFrameIntervals(win, clear, clock)
    /\ flipped' = NoFlips
    /\ ret' = Pending
    /\ call' = NoCall
    /\ UNCHANGED <<clock, log, pc, constructed, checkTiming, swapSource,
                   nFlips, unitVars, _toCall, _toLog, sinceFps, glVars, stimVars>>

\* time passes only in flip(): fps() is called when the frame clock has run
UserFps ==
    /\ pc = "ready"
    /\ clock > win.frameClock
    /\ ret' = FpsValue(win, clock)
    /\ win' = FpsWin(win, clock)
    /\ sinceFps' = [flips |-> 0, t |-> clock]
    /\ flipped' = NoFlips
    /\ call' = NoCall
    /\ UNCHANGED <<clock, log, pc, constructed, checkTiming, swapSource,
                   nFlips, unitVars, _toCall, _toLog, glVars, stimVars>>

(* A second pyglet window.  It is built with checkTiming=False, never      *)
(* records and has nothing queued, so that its flips change none of its    *)
(* own fields: what they change is the time, the active GL context and     *)
(* currWindow.                                                             *)

\* win2 = Window(checkTiming=False): creating the pyglet window makes its
\* context the active one, and __init__ ends with currWindow = self
OpenWindow2 ==
    /\ pc = "ready"
    /\ openWindows = <<"win">>
    /\ context' = "win2"
    /\ currWindow' = "win2"
    /\ openWindows' = Append(openWindows, "win2")
    /\ flipped' = NoFlips
    /\ ret' = Pending
    /\ call' = NoCall
    /\ UNCHANGED <<clock, win, log, pc, constructed, checkTiming, swapSource,
                   nFlips, unitVars, _toCall, _toLog, sinceFps,
                   basevisual_currWindow, swapped, stimVars>>

\* win2.flip()
UserFlip2 ==
    /\ pc = "ready"
    /\ openWindows = <<"win", "win2">>
    /\ nFlips < MaxFlips
    /\ \E d \in SwapChoices(swapSource, 0) : clock' = clock + d
    /\ context' = ContextAtSwap("win2", currWindow, context)
    /\ currWindow' = CurrWindowAfterFlip("win2", currWindow)
    /\ swapped' = [window |-> "win2",
                   context |-> ContextAtSwap("win2", currWindow, context)]
    /\ nFlips' = nFlips + 1
    /\ flipped' = NoFlips
    /\ ret' = Pending
    /\ call' = NoCall
    /\ UNCHANGED <<win, log, pc, constructed, checkTiming, swapSource,
                   unitVars, _toCall, _toLog, sinceFps, openWindows,
                   basevisual_currWindow, stimVars>>

\* the steps below change the GL state only
GLCall ==
    /\ pc = "ready"
    /\ flipped' = NoFlips
    /\ ret' = Pending
    /\ call' = NoCall
    /\ UNCHANGED <<clock, win, log, pc, constructed, checkTiming, swapSource,
                   nFlips, unitVars, _toCall, _toLog, sinceFps, openWindows,
                   swapped, stimVars>>

\* w.setColor(color): self.winHandle.switch_to(), whatever currWindow is
UserSetColor ==
    /\ \E w \in Windows :
          /\ \E i \in 1..Len(openWindows) : openWindows[i] = w
          /\ context' = w
    /\ GLCall
    /\ UNCHANGED <<currWindow, basevisual_currWindow>>

\* w.setRGB(newRGB): if currWindow != self: self.winHandle.switch_to()
UserSetRGB ==
    /\ \E w \in Windows :
          /\ \E i \in 1..Len(openWindows) : openWindows[i] = w
          /\ context' = IF currWindow # w THEN w ELSE context
    /\ GLCall
    /\ UNCHANGED <<currWindow, basevisual_currWindow>>

\* stim._selectWindow(w), with the currWindow of basevisual.py
UserSelectWindow ==
    /\ \E w \in Windows :
          /\ \E i \in 1..Len(openWindows) : openWindows[i] = w
          /\ context' = IF w # basevisual_currWindow THEN w ELSE context
          /\ basevisual_currWindow' = IF w # basevisual_currWindow THEN w
                                      ELSE basevisual_currWindow
    /\ GLCall
    /\ UNCHANGED currWindow

(* Stimuli.  stimCall is the call just made on a stimulus: the stimulus,   *)
(* the value given to setAutoDraw, and for a read of verticesPix what it    *)
(* returned and whether it computed the vertices anew.                      *)

\* a call on a stimulus changes nothing of the windows but their draw lists
StimCall ==
    /\ pc = "ready"
    /\ flipped' = NoFlips
    /\ ret' = Pending
    /\ call' = NoCall
    /\ UNCHANGED <<clock, win, log, pc, constructed, checkTiming, swapSource,
                   nFlips, unitVars, _toCall, _toLog, sinceFps, glVars>>

\* is window w open
IsOpen(w) == \E k \in 1..Len(openWindows) : openWindows[k] = w

\* stim = Stim(w, units=.., pos=.., size=.., ori=.., depth=.., autoLog=False)
NewStim(unitsGiven, positions, sizes, oris, depths) ==
    /\ Len(stims) < MaxStims
    /\ \E w \in Windows, units \in unitsGiven, pos \in positions, size \in sizes,
          ori \in oris, depth \in depths :
          /\ IsOpen(w)
          /\ stims' = Append(stims, InitStim(w, units, pos, size, ori, depth))
    /\ stimCall' = [NoStimCall EXCEPT !.op = "__init__", !.stim = Len(stims) + 1]
    /\ StimCall
    /\ UNCHANGED <<_toDraw, _toDrawDepths>>

\* stimuli that differ in depth only
UserNewStimAtDepth ==
    NewStim({"None"}, {Arr(<<2>>, <<Q(0), Q(0)>>)}, {Arr(<<2>>, <<Q(1), Q(1)>>)},
            {0}, StimDepths)

\* the first stimulus, of any units, position, size and orientation: the
\* vertices of a stimulus depend on nothing of another stimulus
UserNewStim ==
    /\ stims = <<>>
    /\ NewStim(StimUnits, StimPositions, StimSizes, StimOris, {0})

\* stim.setAutoDraw(value)
UserSetAutoDraw ==
    /\ \E i \in 1..Len(stims), value \in BOOLEAN :
          LET w == stims[i].win
              r == AutoDraw(stims[i], i, _toDraw[w], _toDrawDepths[w], value)
          IN  /\ stims' = [stims EXCEPT ![i].autoDraw = value, ![i].status = r.status]
              /\ _toDraw' = [_toDraw EXCEPT ![w] = r.toDraw]
              /\ _toDrawDepths' = [_toDrawDepths EXCEPT ![w] = r.toDrawDepths]
              /\ stimCall' = [NoStimCall EXCEPT !.op = "autoDraw", !.stim = i,
                                                 !.value = value]
    /\ StimCall

\* stim.setDepth(newDepth) on a stimulus that is not being drawn
UserSetDepth ==
    /\ \E i \in 1..Len(stims), newDepth \in StimDepths :
          /\ ~BeingDrawn(i, _toDraw[stims[i].win])
          /\ stims' = [stims EXCEPT ![i].depth = newDepth]
          /\ stimCall' = [NoStimCall EXCEPT !.op = "depth", !.stim = i]
    /\ StimCall
    /\ UNCHANGED <<_toDraw, _toDrawDepths>>

\* a setter of stimulus i that leaves it as stim
StimSet(i, op, stim) ==
    /\ stims' = [stims EXCEPT ![i] = stim]
    /\ stimCall' = [NoStimCall EXCEPT !.op = op, !.stim = i]
    /\ StimCall
    /\ UNCHANGED <<_toDraw, _toDrawDepths>>

\* stim.pos = value
UserSetPos ==
    \E i \in 1..Len(stims), value \in StimPositions :
        StimSet(i, "pos", SetPos(stims[i], value))

\* stim.size = value
UserSetSize ==
    \E i \in 1..Len(stims), value \in StimSizes :
        StimSet(i, "size", SetSize(stims[i], value))

\* stim.ori = value
UserSetOri ==
    \E i \in 1..Len(stims), value \in StimOris :
        StimSet(i, "ori", SetOri(stims[i], value))

\* stim.units = value
UserSetUnits ==
    \E i \in 1..Len(stims), value \in StimUnits :
        StimSet(i, "units", SetUnits(stims[i], value))

\* stim.win = value
UserSetWin ==
    \E i \in 1..Len(stims), value \in Windows :
        /\ IsOpen(value)
        /\ StimSet(i, "win", SetWin(stims[i], value))

\* stim.verticesPix is read
UserReadVerticesPix ==
    /\ \E i \in 1..Len(stims) :
          /\ stims' = [stims EXCEPT ![i] = ReadVerticesPix(stims[i], _unit2PixMappings)]
          /\ stimCall' = [NoStimCall EXCEPT
                              !.op = "verticesPix", !.stim = i,
                              !.updated = stims[i]._needVertexUpdate,
                              !.returned = ReadVerticesPix(stims[i],
                                                           _unit2PixMappings).verticesPix]
    /\ StimCall
    /\ UNCHANGED <<_toDraw, _toDrawDepths>>

Next ==
    \/ ConstructMeasure
    \/ ConstructFinish
    \/ WarmUpFlip
    \/ StartTest
    \/ TestFlip
    \/ GiveUp
    \/ UserFlip
    \/ UserSetRecordFrameIntervals
    \/ UserGetActualFrameRate

Spec == Init /\ [][Next]_vars

\* a running getActualFrameRate always takes its next step: flip() returns
FairSpec == Spec /\ WF_vars(Measure)

\* user code that flips, once or several times, and records, on a window
\* built with checkTiming=False
NextFlip ==
    \/ ConstructFinish
    \/ UserFlip
    \/ UserMultiFlip
    \/ UserSetRecordFrameIntervals

SpecFlip == Init /\ [][NextFlip]_vars

\* user code that queues calls and flips, on a window built with
\* checkTiming=False
NextCalls ==
    \/ ConstructFinish
    \/ UserCallOnFlip
    \/ UserFlip
    \/ UserMultiFlip

SpecCalls == Init /\ [][NextCalls]_vars

\* user code that queues calls and log messages and flips, on a window
\* whose __init__ may have measured the refresh rate (and so have recorded)
NextQueues ==
    \/ ConstructMeasure
    \/ ConstructFinish
    \/ WarmUpFlip
    \/ StartTest
    \/ TestFlip
    \/ GiveUp
    \/ UserCallOnFlip
    \/ UserLogOnFlip
    \/ UserFlip

SpecQueues == Init /\ [][NextQueues]_vars

\* user code that queues calls, some of which queue calls themselves, and flips
NextRequeue ==
    \/ ConstructFinish
    \/ UserCallOnFlipAny
    \/ UserFlip

SpecRequeue == Init /\ [][NextRequeue]_vars

\* user code that opens a second window, flips both, sets their colours
\* and draws stimuli in them
NextWindows ==
    \/ ConstructFinish
    \/ OpenWindow2
    \/ UserFlip
    \/ UserFlip2
    \/ UserSetColor
    \/ UserSetRGB
    \/ UserSelectWindow

SpecWindows == Init /\ [][NextWindows]_vars

\* user code that creates stimuli on two windows, gives them depths and
\* switches their autoDraw on and off
NextDraw ==
    \/ ConstructFinish
    \/ OpenWindow2
    \/ UserNewStimAtDepth
    \/ UserSetAutoDraw
    \/ UserSetDepth

SpecDraw == Init /\ [][NextDraw]_vars

\* user code that creates stimuli on two windows, sets their attributes and
\* reads their vertices
NextVertices ==
    \/ ConstructFinish
    \/ OpenWindow2
    \/ UserNewStim
    \/ UserSetPos
    \/ UserSetSize
    \/ UserSetOri
    \/ UserSetUnits
    \/ UserSetWin
    \/ UserReadVerticesPix

SpecVertices == Init /\ [][NextVertices]_vars

\* user code that flips, records and reads fps()
NextFps ==
    \/ ConstructMeasure
    \/ ConstructFinish
    \/ WarmUpFlip
    \/ StartTest
    \/ TestFlip
    \/ GiveUp
    \/ UserFlip
    \/ UserSetRecordFrameIntervals
    \/ UserSaveFrameIntervals
    \/ UserFps

SpecFps == Init /\ [][NextFps]_vars

\* user code that flips, records, measures the refresh rate and saves the
\* frame intervals, on a window whose __init__ may have measured the rate
NextSamples ==
    \/ ConstructMeasure
    \/ ConstructFinish
    \/ WarmUpFlip
    \/ StartTest
    \/ TestFlip
    \/ GiveUp
    \/ UserFlip
    \/ UserSetRecordFrameIntervals
    \/ UserSaveFrameIntervals
    \/ UserGetActualFrameRate

SpecSamples == Init /\ [][NextSamples]_vars

----------------------------------------------------------------------------
(* Calls made by user code on the unit registry *)

AddUnitTypeConversion ==
    /\ unitCall.n < MaxUnitOps
    /\ \E unit_label \in UnitLabels, mapping_func \in UserMappings :
          LET r == AddUnitTypeConversionOutcome(_unit2PixMappings, unit_label, mapping_func)
          IN  /\ _unit2PixMappings' = r.mappings
              /\ unitCall' = [op |-> "addUnitTypeConversion", units |-> unit_label,
                              func |-> mapping_func, outcome |-> r.outcome,
                              n |-> unitCall.n + 1]
    /\ UNCHANGED <<winVars, flipVars, glVars, stimVars, conv>>

ConvertToPix ==
    /\ unitCall.n < MaxUnitOps
    /\ \E units \in UnitLabels :
          LET r == ConvertToPixOutcome(_unit2PixMappings, units)
          IN  unitCall' = [op |-> "convertToPix", units |-> units, func |-> r.func,
                           outcome |-> r.outcome, n |-> unitCall.n + 1]
    /\ UNCHANGED <<_unit2PixMappings, winVars, flipVars, glVars, stimVars, conv>>

NextUnits == AddUnitTypeConversion \/ ConvertToPix

SpecUnits == Init /\ [][NextUnits]_vars

----------------------------------------------------------------------------
(* Conversion calls: the arguments are drawn at the start, the call runs   *)

InitConv ==
    /\ clock = 0
    /\ win = InitWin(0)
    /\ log = InitLog
    /\ pc = "construct"
    /\ constructed = FALSE
    /\ checkTiming = FALSE
    /\ swapSource = "steady"
    /\ call = NoCall
    /\ ret = Pending
    /\ nFlips = 0
    /\ _unit2PixMappings = InitMappings
    /\ unitCall = NoUnitCall
    /\ \/ \E v \in VerticesSet, p \in PosSet, u \in UnitLabels, w \in Wins :
             conv = [NoConv EXCEPT !.call = "convertToPix", !.x = v, !.pos = p,
                                   !.units = u, !.win = w]
       \/ \E name \in ConversionNames, x \in ConversionArgs, w \in Wins,
             cf \in BOOLEAN :
             conv = [NoConv EXCEPT !.call = name, !.x = x, !.win = w,
                                   !.correctFlat = cf]
    /\ _toCall = <<>>
    /\ flipped = NoFlips
    /\ sinceFps = [flips |-> 0, t |-> 0]
    /\ InitScene

CallConvertToPix ==
    /\ conv.call = "convertToPix"
    /\ ~conv.done
    /\ conv' = [conv EXCEPT
                   !.result = ConvertToPixResult(_unit2PixMappings, conv.x, conv.pos,
                                                 conv.units, conv.win),
                   !.done = TRUE]
    /\ UNCHANGED <<winVars, flipVars, glVars, stimVars, _unit2PixMappings, unitCall>>

CallConversion ==
    /\ conv.call \in ConversionNames
    /\ ~conv.done
    /\ conv' = [conv EXCEPT
                   !.result = ConversionResult(conv.call, conv.x, conv.win.monitor,
                                               conv.correctFlat),
                   !.done = TRUE]
    /\ UNCHANGED <<winVars, flipVars, glVars, stimVars, _unit2PixMappings, unitCall>>

NextConv == CallConvertToPix \/ CallConversion

SpecConv == InitConv /\ [][NextConv]_vars

----------------------------------------------------------------------------
(* Helpers of the properties *)

InCall == pc \in {"warmup", "test"}

\* a step that performs a buffer swap: only flip() lets time pass
FlipStep == clock' # clock

FracEq(a, b) == a.num * b.den = b.num * a.den

\* the interval samples right after the flip of this step, before any clearing
SamplesAfterFlip ==
    IF win.recordFrameIntervals /\ ~win.recordFrameIntervalsJustTurnedOn
    THEN Append(win.frameIntervals, clock' - win.lastFrameT)
    ELSE win.frameIntervals

Min(a, b) == IF a < b THEN a ELSE b

----------------------------------------------------------------------------
(* C1: in the measuring loop of getActualFrameRate, a flip after which at  *)
(* least nIdentical samples exist and the standard deviation of the most   *)
(* recent nIdentical samples is below the threshold ends the call at once  *)
(* with the rate 1 / mean of exactly those samples; any other flip of the  *)
(* loop returns nothing, so the call returns at the first such flip.       *)
C1_ReturnsAtFirstConvergence ==
    [][ (pc = "test" /\ FlipStep) =>
          LET s == SamplesAfterFlip
              n == call.nIdentical
          IN  IF Len(s) >= n
                 /\ n * SumSq(LastN(s, n)) - Sum(LastN(s, n)) * Sum(LastN(s, n))
                       < call.threshold * call.threshold * n * n
              THEN /\ ~InCall'
                   /\ ret'.kind = "rate"
                   \* rate (Hz) * sum of the samples (ms) = 1000 * n
                   /\ ret'.num * Sum(LastN(s, n)) = ret'.den * MsPerSecond * n
              ELSE /\ pc' = "test"
                   /\ ret'.kind = "pending"
      ]_vars

\* a call has just returned the rate of the samples 16 ms and 20 ms, whose
\* standard deviation (2 ms) is below the threshold of 3 ms
C1_Witness ==
    /\ pc = "ready"
    /\ ret.kind = "rate"
    /\ call.nIdentical = 2
    /\ call.threshold = 3
    /\ FracEq(ret, Frac(MsPerSecond, 18))

(* C2, as claimed: when getActualFrameRate returns None it has logged the  *)
(* warning and has collected nMaxFrames interval samples after warm-up     *)
(* (here for the call made by __init__, whose sample sequence starts       *)
(* empty).                                                                 *)
C2_NoneAfterNMaxFramesSamples ==
    (pc = "returned" /\ ret.kind = "None") =>
        /\ log.noConsistentRate = 1
        /\ Len(win.frameIntervals) = call.nMaxFrames

(* C3: a call of getActualFrameRate with nIdentical > nMaxFrames raises    *)
(* ValueError at once: no flip is performed and the recording flag, the    *)
(* grace flag, the frame clock, frameIntervals, frames and nDroppedFrames  *)
(* are unchanged; with nIdentical <= nMaxFrames it does not raise.         *)
C3_RaisesBeforeAnyFlip ==
    [][ (pc = "ready" /\ call' # NoCall) =>
          IF call'.nIdentical > call'.nMaxFrames
          THEN /\ ret' = ValueError
               /\ pc' = "ready"
               /\ win' = win
               /\ clock' = clock
               /\ log' = log
               /\ nFlips' = nFlips
          ELSE /\ ret' = Pending
               /\ pc' = "warmup"
      ]_vars

\* the call raised while recording was on and the frame clock was running
C3_Witness ==
    /\ ret = ValueError
    /\ call.nIdentical > call.nMaxFrames
    /\ win.recordFrameIntervals
    /\ win.frameClock < clock
    /\ Len(win.frameIntervals) > 0

(* C4, as claimed: once recording has been switched from off to on, the    *)
(* grace period stays pending until the next flip as long as recording     *)
(* stays on, however many setRecordFrameIntervals(True) calls follow; so   *)
(* the first flip after the switch appends no sample.                      *)
C4_GraceSurvivesRepeatedEnable ==
    [][ (win.recordFrameIntervalsJustTurnedOn /\ ~FlipStep
            /\ win'.recordFrameIntervals)
          => win'.recordFrameIntervalsJustTurnedOn
      ]_vars

(* C5, as claimed: addUnitTypeConversion(name, f) with a name that is not  *)
(* registered succeeds, and convertToPix with units=name then dispatches   *)
(* to f; with a registered name it raises ValueError and leaves the        *)
(* registry unchanged.                                                     *)
C5_RegisterThenDispatch ==
    [][ (unitCall'.n # unitCall.n /\ unitCall'.op = "addUnitTypeConversion") =>
          IF unitCall'.units \notin DOMAIN _unit2PixMappings
          THEN /\ unitCall'.outcome = "ok"
               /\ ConvertToPixOutcome(_unit2PixMappings', unitCall'.units)
                     = [outcome |-> "called", func |-> unitCall'.func]
          ELSE /\ unitCall'.outcome = "ValueError"
               /\ _unit2PixMappings' = _unit2PixMappings
      ]_vars

(* C6: a call of getActualFrameRate with nIdentical <= nMaxFrames          *)
(* terminates.  It performs exactly nWarmUpFrames flips with recording     *)
(* off, which append no sample, then at most nMaxFrames flips with         *)
(* recording on, then returns a rate or None; so it never performs more    *)
(* than nWarmUpFrames + nMaxFrames flips.                                  *)
C6_Terminates ==
    /\ [] /\ pc = "warmup" =>
                /\ ~win.recordFrameIntervals
                /\ call.warmUpFrameN <= call.nWarmUpFrames
                /\ call.frameN = 0
          /\ pc = "test" =>
                /\ win.recordFrameIntervals
                /\ call.warmUpFrameN = call.nWarmUpFrames
                /\ call.frameN <= call.nMaxFrames
          /\ ret.kind \in {"rate", "None"} =>
                /\ ~InCall
                /\ call.warmUpFrameN = call.nWarmUpFrames
                /\ call.frameN <= call.nMaxFrames
    /\ [][ /\ (InCall /\ FlipStep) =>
                call'.warmUpFrameN + call'.frameN = call.warmUpFrameN + call.frameN + 1
           /\ (pc = "warmup" /\ FlipStep) =>
                win'.frameIntervals = win.frameIntervals
           /\ (InCall /\ ~InCall') => ret'.kind \in {"rate", "None"}
         ]_vars
    /\ InCall ~> ~InCall

\* a call that used every flip it may use has returned
C6_Witness ==
    /\ pc = "ready"
    /\ ret.kind = "None"
    /\ call.nWarmUpFrames > 0
    /\ call.warmUpFrameN + call.frameN = call.nWarmUpFrames + call.nMaxFrames

(* C7: with swaps exactly 10 ms apart and an empty sample sequence,        *)
(* getActualFrameRate(nIdentical=10, nMaxFrames=100, threshold=1) (the     *)
(* call __init__ makes) returns 100 Hz and never None, and returns as soon *)
(* as 10 samples have been recorded after warm-up: at the 11th flip of the *)
(* measuring loop, the first one being the grace flip.                     *)
C7_SteadyTenMsGives100Hz ==
    (~constructed /\ swapSource = "steady") =>
        /\ ret.kind # "None"
        /\ pc = "test" => Len(win.frameIntervals) < DefaultNIdentical
        /\ pc = "returned" =>
              /\ ret.kind = "rate"
              /\ FracEq(ret, Frac(100, 1))
              /\ call.nIdentical = 10 /\ call.nMaxFrames = 100 /\ call.threshold = 1
              /\ call.frameN = 10 + 1

C7_Witness ==
    /\ ~constructed
    /\ swapSource = "steady"
    /\ pc = "returned"
    /\ call.warmUpFrameN = 10
    /\ FracEq(ret, Frac(100, 1))

(* C8: every flip that records a sample adds exactly one to nDroppedFrames *)
(* if the sample is strictly greater than _refreshThreshold and otherwise  *)
(* leaves it unchanged; no other step changes nDroppedFrames.              *)
C8_DropCountedIffOverThreshold ==
    [][ win'.nDroppedFrames =
          win.nDroppedFrames +
            ( IF /\ FlipStep
                 /\ win.recordFrameIntervals
                 /\ ~win.recordFrameIntervalsJustTurnedOn
                 /\ (clock' - win.lastFrameT) * win._refreshThreshold.den
                       > win._refreshThreshold.num
              THEN 1 ELSE 0 )
      ]_vars

\* threshold 20 ms (close to 1.2 x 16.67 ms): of the recorded intervals
\* 16, 40, 16 ms and of 20, 40, 16 ms only the 40 ms one was a drop
C8_Witness ==
    /\ FracEq(win._refreshThreshold, Frac(20, 1))
    /\ win.frameIntervals \in {<<16, 40, 16>>, <<20, 40, 16>>}
    /\ win.nDroppedFrames = 1

(* C9: a dropped-frame warning is logged for each of the first             *)
(* reportNDroppedFrames (5) dropped frames and for none after that: the    *)
(* number of warnings logged is min(nDroppedFrames, 5), while              *)
(* nDroppedFrames counts every drop.                                       *)
C9_DropWarningsStopAfterFive ==
    /\ log.frameTime + log.stopBothering = Min(win.nDroppedFrames, 5)
    /\ log.stopBothering = (IF win.nDroppedFrames >= 5 THEN 1 ELSE 0)

C9_Witness ==
    /\ win.nDroppedFrames > 5 + 1
    /\ log.frameTime + log.stopBothering = 5

(* C10: when Window.__init__ finishes, _refreshThreshold is 1.2 / rate and *)
(* monitorFramePeriod is 1 / rate if the start-up measurement returned a   *)
(* rate; if it returned None or checkTiming was False, _refreshThreshold   *)
(* is 1.2/60 s and monitorFramePeriod is still 0.0; construction finishes  *)
(* in every case.                                                          *)
C10_ThresholdAfterConstruction ==
    [][ (~constructed /\ constructed') =>
          /\ pc' = "ready"
          /\ IF checkTiming /\ ret.kind = "rate"
             THEN /\ win'._monitorFrameRate = ret
                  \* threshold (ms) * rate (Hz) = 1.2 * 1000
                  /\ win'._refreshThreshold.num * ret.num
                        = 1200 * win'._refreshThreshold.den * ret.den
                  \* period (ms) * rate (Hz) = 1000
                  /\ win'.monitorFramePeriod.num * ret.num
                        = 1000 * win'.monitorFramePeriod.den * ret.den
             ELSE /\ win'._monitorFrameRate = None
                  \* threshold (ms) * 60 = 1.2 * 1000
                  /\ win'._refreshThreshold.num * 60
                        = 1200 * win'._refreshThreshold.den
                  /\ win'.monitorFramePeriod.num = 0
      ]_vars

\* constructed after an Unmeasurable start-up measurement
C10_Witness ==
    /\ constructed
    /\ checkTiming
    /\ log.noConsistentRate = 1
    /\ nFlips = 0
    /\ FracEq(win._refreshThreshold, Frac(20, 1))
    /\ win.monitorFramePeriod.num = 0

(* C11, as claimed: fps() returns the number of flips performed since the  *)
(* previous fps() call (or since the window was created) divided by the    *)
(* time elapsed since that moment, and resets the frame counter and the    *)
(* frame clock, whatever was recorded or reset in between.                 *)
C11_FpsCountsEveryFlip ==
    [][ (ret'.kind = "fps" /\ ret.kind # "fps") =>
          /\ win'.frames = 0
          /\ win'.frameClock = clock
          \* fps (Hz) * elapsed (ms) = 1000 * flips
          /\ ret'.num * (clock - sinceFps.t) = ret'.den * MsPerSecond * sinceFps.flips
      ]_vars

C20_MultiFlipFlipsNTimes ==
    [][ (FlipStep /\ pc = "ready" /\ flipped'.flips >= 1) =>
          LET n     == flipped'.flips
              cb    == flipped'.clearBuffer
              old   == Len(win.frameIntervals)
              new   == win'.frameIntervals
              grace == IF win.recordFrameIntervalsJustTurnedOn THEN 1 ELSE 0
              drops == Cardinality({i \in (old + 1)..Len(new) :
                          new[i] * win._refreshThreshold.den > win._refreshThreshold.num})
          IN  /\ Len(cb) = n
              /\ \A i \in 1..(n - 1) : cb[i] = FALSE
              /\ cb[n] = flipped'.arg
              /\ nFlips' = nFlips + n
              /\ n = 1 => \E d \in IntervalSet :
                             /\ clock' = clock + d
                             /\ win' = Flip(win, clock + d)
                             /\ log' = FlipLog(win, log, clock + d)
              /\ IF win.recordFrameIntervals
                 THEN /\ win'.frames = win.frames + n
                      /\ win'.lastFrameT = clock'
                      /\ Len(new) = old + n - grace
                      /\ SubSeq(new, 1, old) = win.frameIntervals
                      /\ \A i \in (old + 2 - grace)..Len(new) : new[i] \in IntervalSet
                      /\ grace = 0 => Sum(new) - Sum(win.frameIntervals)
                                         = clock' - win.lastFrameT
                      /\ win'.nDroppedFrames = win.nDroppedFrames + drops
                      /\ ~win'.recordFrameIntervalsJustTurnedOn
                 ELSE win' = win
      ]_vars

\* recording was switched on and multiFlip(3) ran: three flips, the first
\* two without clearing the buffer, and two samples after the grace flip
C20_Witness ==
    /\ flipped.flips = 3
    /\ flipped.clearBuffer = <<FALSE, FALSE, TRUE>>
    /\ win.recordFrameIntervals
    /\ win.frames = 3
    /\ Len(win.frameIntervals) = 2

----------------------------------------------------------------------------
(* Helpers of the properties about conversions *)

CalibrationMissing ==
    {"no known distance", "no known size in pixels", "no known width in cm"}

Calibrated(monitor) ==
    monitor.width # <<>> /\ monitor.sizePix # <<>> /\ monitor.distance # <<>>

IsNxTwo(a) == Len(a.shape) = 2 /\ a.shape[2] = 2

(* C13: convertToPix raises the unknown-unit ValueError for every unit     *)
(* name that is not in the registry, and then no mapping function has      *)
(* produced the outcome; for a registered name it returns exactly what the *)
(* function registered under that name returns for the given vertices,     *)
(* pos and win.                                                            *)
C13_UnknownUnitRaises ==
    (conv.done /\ conv.call = "convertToPix") =>
        IF conv.units \in DOMAIN _unit2PixMappings
        THEN conv.result = Apply(_unit2PixMappings[conv.units], conv.x, conv.pos, conv.win)
        ELSE /\ conv.result.kind = "ValueError"
             /\ conv.result.msg = "not registered"
             /\ \A u \in DOMAIN _unit2PixMappings :
                   conv.result # Apply(_unit2PixMappings[u], conv.x, conv.pos, conv.win)

\* convertToPix with units 'polar' on a calibrated monitor raised
C13_Witness ==
    /\ conv.done
    /\ conv.call = "convertToPix"
    /\ conv.units = "polar"
    /\ Calibrated(conv.win.monitor)
    /\ IsNxTwo(conv.x)
    /\ conv.result.kind = "ValueError"

(* C14: with a calibration in which a required field is None the           *)
(* conversion raises the calibration-missing ValueError and returns no     *)
(* value: cm2pix and pix2cm need the width in cm and the size in pixels,   *)
(* deg2cm and cm2deg need the distance, deg2pix and pix2deg need all       *)
(* three; convertToPix in the pix, norm and height unit spaces never       *)
(* raises it.                                                              *)
C14_MissingCalibrationRaises ==
    LET m == conv.win.monitor
        missing ==
            CASE conv.call \in {"cm2pix", "pix2cm"} ->
                    m.width = <<>> \/ m.sizePix = <<>>
              [] conv.call \in {"deg2cm", "cm2deg"} -> m.distance = <<>>
              [] conv.call \in {"deg2pix", "pix2deg"} -> ~Calibrated(m)
              [] OTHER -> FALSE
    IN  conv.done =>
          /\ missing => /\ conv.result.kind = "ValueError"
                        /\ conv.result.msg \in CalibrationMissing
          /\ (conv.call \in ConversionNames /\ ~missing) =>
                 conv.result.msg \notin CalibrationMissing
          /\ (conv.call = "convertToPix" /\ conv.units \in {"pix", "norm", "height"}) =>
                 conv.result.msg \notin CalibrationMissing

\* pix2deg with a known width and size but no distance raised
C14_Witness ==
    /\ conv.done
    /\ conv.call = "pix2deg"
    /\ conv.win.monitor.width # <<>>
    /\ conv.win.monitor.sizePix # <<>>
    /\ conv.win.monitor.distance = <<>>
    /\ conv.result.kind = "ValueError"
    /\ conv.result.msg = "no known distance"

(* C15, as claimed: deg2cm and deg2pix with correctFlat=True on a          *)
(* calibrated monitor raise the shape ValueError for every input that is   *)
(* 1-D or (N,1)-shaped, and return an (N,2) result for every (N,2) input.  *)
C15_FlatShapeError ==
    (/\ conv.done
     /\ conv.call \in {"deg2cm", "deg2pix"}
     /\ conv.correctFlat
     /\ Calibrated(conv.win.monitor)
     /\ Len(conv.x.shape) >= 1) =>
        IF IsNxTwo(conv.x)
        THEN conv.result.kind = "array" /\ conv.result.shape = conv.x.shape
        ELSE conv.result.kind = "ValueError"

(* C16, as claimed: convertToPix with units 'degFlatPos', Nx2 vertices and *)
(* a single (x, y) position on a calibrated monitor returns the            *)
(* flat-corrected deg2pix of the position plus the uncorrected deg2pix of  *)
(* the vertices.                                                           *)
C16_DegFlatPosSum ==
    (/\ conv.done
     /\ conv.call = "convertToPix"
     /\ conv.units = "degFlatPos"
     /\ IsNxTwo(conv.x)
     /\ conv.pos.shape \in {<<2>>, <<1, 2>>}
     /\ Calibrated(conv.win.monitor)) =>
        /\ conv.result.kind = "array"
        /\ conv.result =
              Add(deg2pix(Arr(<<1, 2>>, conv.pos.data), conv.win.monitor, TRUE),
                  deg2pix(conv.x, conv.win.monitor, FALSE))

\* the tolerance of a comparison of floats
ConvTolerance == Frac(1, 1000)

\* a and b have the same shape and agree element by element within the tolerance
Close(a, b) ==
    /\ a.kind = "array"
    /\ b.kind = "array"
    /\ a.shape = b.shape
    /\ \A i \in 1..Len(a.data) : QLe(QAbs(QSub(a.data[i], b.data[i])), ConvTolerance)

AllZero(a) == a.kind = "array" /\ \A i \in 1..Len(a.data) : a.data[i] = Q(0)

Zero == Scalar(Q(0))

LinearUnits == {"pix", "norm", "height", "cm", "deg"}

(* C17: on a calibration with known width, size in pixels and distance the *)
(* uncorrected conversions are mutual inverses, exactly over the           *)
(* rationals: pix2cm(cm2pix(x)) = x, cm2deg(deg2cm(x)) = x and             *)
(* pix2deg(deg2pix(x)) = x with correctFlat=False, and the same with the   *)
(* two functions exchanged, for every input x.                             *)
C17_UncorrectedRoundTrip ==
    LET m == conv.win.monitor
        r == conv.result
    IN  (/\ conv.done
         /\ conv.call \in ConversionNames
         /\ ~conv.correctFlat
         /\ Calibrated(m)) =>
            /\ r.kind = "array"
            /\ r.shape = conv.x.shape
            /\ conv.call = "cm2pix"  => pix2cm(r, m) = conv.x
            /\ conv.call = "pix2cm"  => cm2pix(r, m) = conv.x
            /\ conv.call = "deg2cm"  => cm2deg(r, m, FALSE) = conv.x
            /\ conv.call = "cm2deg"  => deg2cm(r, m, FALSE) = conv.x
            /\ conv.call = "deg2pix" => pix2deg(r, m, FALSE) = conv.x
            /\ conv.call = "pix2deg" => deg2pix(r, m, FALSE) = conv.x

\* deg2pix of 45 and -45 degrees at 57 cm on a screen of 800 pixels in 30 cm
C17_Witness ==
    /\ conv.done
    /\ conv.call = "deg2pix"
    /\ ~conv.correctFlat
    /\ conv.win.monitor = [width |-> <<30>>, sizePix |-> <<800, 600>>, distance |-> <<57>>]
    /\ conv.x = Arr(<<2>>, <<Q(45), Q(-45)>>)
    /\ conv.result.kind = "array"
    /\ conv.result.data[1] # conv.x.data[1]

(* C18, as claimed: on a calibrated monitor the flat-corrected conversions *)
(* are mutual inverses for every (N,2) input x, within tolerance:          *)
(* cm2deg(deg2cm(x, True), True) = x and pix2deg(deg2pix(x, True), True)   *)
(* = x.                                                                    *)
C18_FlatRoundTrip ==
    LET m == conv.win.monitor
        r == conv.result
    IN  (/\ conv.done
         /\ conv.call \in {"deg2cm", "deg2pix"}
         /\ conv.correctFlat
         /\ IsNxTwo(conv.x)
         /\ Calibrated(m)) =>
            /\ r.kind = "array"
            /\ conv.call = "deg2cm"  => Close(cm2deg(r, m, TRUE), conv.x)
            /\ conv.call = "deg2pix" => Close(pix2deg(r, m, TRUE), conv.x)

(* C19: in the linear unit spaces pix, norm, height, cm and deg, with the  *)
(* calibration the unit needs, convertToPix(v, p, u, win) equals           *)
(* convertToPix(v, 0, u, win) + convertToPix(0, p, u, win) for all         *)
(* vertices v and positions p, and convertToPix(0, 0, u, win) is zero.     *)
C19_LinearSpaces ==
    LET m == conv.win.monitor
        known ==
            CASE conv.units = "cm"  -> m.width # <<>> /\ m.sizePix # <<>>
              [] conv.units = "deg" -> Calibrated(m)
              [] OTHER -> TRUE
        toPix(v, p) == ConvertToPixResult(_unit2PixMappings, v, p, conv.units, conv.win)
    IN  (/\ conv.done
         /\ conv.call = "convertToPix"
         /\ conv.units \in LinearUnits
         /\ known) =>
            /\ conv.result.kind = "array"
            /\ conv.result = Add(toPix(conv.x, Zero), toPix(Zero, conv.pos))
            /\ AllZero(toPix(Zero, Zero))

\* two vertices in norm units at a position that is not the origin
C19_Witness ==
    /\ conv.done
    /\ conv.call = "convertToPix"
    /\ conv.units = "norm"
    /\ conv.x.shape = <<2, 2>>
    /\ conv.x.data[1] # conv.x.data[3]
    /\ conv.pos = Arr(<<2>>, <<Q(-45), Q(45)>>)
    /\ conv.result.kind = "array"
    /\ conv.result.shape = <<2, 2>>

----------------------------------------------------------------------------
(* C22, as claimed: when getActualFrameRate returns, with a rate or with   *)
(* None, the recording flag is the one the window had before the call.     *)
C22_RecordingFlagRestored ==
    [][ (InCall /\ ~InCall') =>
          win'.recordFrameIntervals = call.recordFrmIntsOrig
      ]_vars

\* the samples recorded by the flips of the measuring loop that have run when
\* this step ends: every flip but the first, which is the grace flip
SamplesOfThisCall == LastN(SamplesAfterFlip, call'.frameN - 1)

(* C23, as claimed: a rate returned by getActualFrameRate is the rate of   *)
(* the last nIdentical samples recorded by the measuring loop of that      *)
(* call; samples that were in frameIntervals before the call do not count. *)
C23_RateFromOwnSamples ==
    [][ (pc = "test" /\ ret'.kind = "rate") =>
          /\ Len(SamplesOfThisCall) >= call.nIdentical
          /\ ret' = RateOf(LastN(SamplesOfThisCall, call.nIdentical))
      ]_vars

\* every sample of s is the same
AllSame(s) == \A i \in 1..Len(s) : s[i] = s[1]

(* C24, as claimed: a call with nIdentical <= nMaxFrames whose sample      *)
(* sequence was empty at the start and whose measuring flips are all the   *)
(* same time apart returns a rate, not None.  (A call that returned None   *)
(* made nMaxFrames flips since setRecordFrameIntervals(True) reset the     *)
(* frame clock and recorded nMaxFrames - 1 samples.)                       *)
C24_ConstantSourceConverges ==
    ~ /\ ret.kind = "None"
      /\ call.nIdentical <= call.nMaxFrames
      /\ Len(win.frameIntervals) = call.nMaxFrames - 1
      /\ AllSame(win.frameIntervals)
      /\ clock - win.frameClock = call.nMaxFrames * win.frameIntervals[1]

\* what the functions of these entries queue when each is called once
RECURSIVE RegisteredBy(_)
RegisteredBy(toCall) ==
    IF toCall = <<>> THEN <<>>
    ELSE Registered(Head(toCall)) \o RegisteredBy(Tail(toCall))

(* C26, as claimed: a flip calls the entries that were queued before it    *)
(* and no entry that one of them queues while it runs; those are left in   *)
(* the queue for the following flip; so every flip returns, also when an   *)
(* entry queues itself again.                                              *)
C26_RequeuedRunsAtNextFlip ==
    [][ (pc = "ready" /\ FlipStep) =>
          /\ pc' = "ready"
          /\ flipped'.called = _toCall
          /\ _toCall' = RegisteredBy(_toCall)
      ]_vars

(* C30: a flip made while recording is off changes none of frames,         *)
(* lastFrameT, frameIntervals, nDroppedFrames and the grace flag, so that  *)
(* the time of the previous swap is out of date when recording is next     *)
(* switched on; the entries queued by callOnFlip and by logOnFlip are      *)
(* called and logged by that flip all the same, and both queues are empty  *)
(* after it.                                                               *)
C30_FlipWithRecordingOff ==
    [][ (FlipStep /\ ~win.recordFrameIntervals) =>
          /\ win'.frames = win.frames
          /\ win'.lastFrameT = win.lastFrameT
          /\ win'.frameIntervals = win.frameIntervals
          /\ win'.nDroppedFrames = win.nDroppedFrames
          /\ win'.recordFrameIntervalsJustTurnedOn = win.recordFrameIntervalsJustTurnedOn
          /\ ~win'.recordFrameIntervals
          /\ log' = log
          /\ flipped'.called = _toCall
          /\ flipped'.logged = _toLog
          /\ _toCall' = <<>>
          /\ _toLog' = <<>>
      ]_vars

\* recording was on while __init__ measured the rate and is off; the flip
\* made since then called an entry and logged a message, and lastFrameT is
\* the time of an older swap
C30_Witness ==
    /\ ~win.recordFrameIntervals
    /\ win._monitorFrameRate.kind = "rate"
    /\ flipped.flips = 1
    /\ Len(flipped.called) > 0
    /\ Len(flipped.logged) > 0
    /\ win.lastFrameT < clock

(* C29: frameIntervals changes only by one sample being appended at its    *)
(* end, in a flip made while recording is on and past the grace flip, or   *)
(* by being emptied, by saveFrameIntervals(clear=True) or when              *)
(* getActualFrameRate returns a rate; the samples already there are never  *)
(* changed, reordered or removed one by one; setRecordFrameIntervals and   *)
(* saveFrameIntervals(clear=False) leave the sequence as it is.            *)
C29_SamplesAppendOrClear ==
    [][ /\ \/ win'.frameIntervals = win.frameIntervals
           \/ /\ FlipStep
              /\ win.recordFrameIntervals
              /\ ~win.recordFrameIntervalsJustTurnedOn
              /\ win'.frameIntervals
                   = Append(win.frameIntervals, clock' - win.lastFrameT)
           \/ /\ win'.frameIntervals = <<>>
              /\ \/ FlipStep /\ pc = "test" /\ ret'.kind = "rate"
                 \/ ~FlipStep /\ win' = SaveFrameIntervals(win, TRUE, clock)
        /\ \A value \in BOOLEAN :
              SetRecordFrameIntervals(win, value, clock).frameIntervals
                 = win.frameIntervals
        /\ SaveFrameIntervals(win, FALSE, clock).frameIntervals = win.frameIntervals
        /\ SaveFrameIntervals(win, TRUE, clock).frameIntervals = <<>>
      ]_vars

\* on a window built without measuring, a sample that was counted as a drop
\* has been recorded and the sequence has been emptied since
C29_Witness ==
    /\ pc = "ready"
    /\ ~checkTiming
    /\ win.nDroppedFrames > 0
    /\ win.frameIntervals = <<>>
    /\ win.recordFrameIntervals

(* C25, as claimed: whenever a flip() swaps the buffers of a window, the   *)
(* active GL context is that window's own, whatever flips, setColor,       *)
(* setRGB and _selectWindow calls came before.                             *)
C25_SwapInOwnContext ==
    swapped.window # "None" => swapped.context = swapped.window

\* a call on a stimulus was made (a call that repeats the one before it and
\* changes nothing is no step)
StimStep == stimCall' # stimCall \/ stims' # stims

\* C21: a stimulus has status NOT_STARTED when constructed; setAutoDraw(True)
\* on a stimulus that is not in its window's _toDraw puts it there and sets
\* status STARTED; setAutoDraw(False) on one that is there removes it and sets
\* status STOPPED; setting autoDraw to what already holds changes neither the
\* lists nor the status
C21_AutoDrawStatus ==
    [][ StimStep =>
        LET i == stimCall'.stim
            w == stims'[i].win
            was == BeingDrawn(i, _toDraw[w])
        IN  /\ stimCall'.op = "__init__" => stims'[i].status = "NOT_STARTED"
            /\ stimCall'.op = "autoDraw" /\ stimCall'.value /\ ~was =>
                   BeingDrawn(i, _toDraw'[w]) /\ stims'[i].status = "STARTED"
            /\ stimCall'.op = "autoDraw" /\ ~stimCall'.value /\ was =>
                   ~BeingDrawn(i, _toDraw'[w]) /\ stims'[i].status = "STOPPED"
            /\ stimCall'.op = "autoDraw" /\ stimCall'.value = was =>
                   /\ _toDraw' = _toDraw
                   /\ _toDrawDepths' = _toDrawDepths
                   /\ stims'[i].status = stims[i].status ]_vars

\* setAutoDraw(False) has just stopped a stimulus that was being drawn, and
\* another stimulus, never switched on, is still NOT_STARTED with autoDraw off
C21_Witness ==
    /\ stimCall.op = "autoDraw"
    /\ ~stimCall.value
    /\ stims[stimCall.stim].status = "STOPPED"
    /\ ~BeingDrawn(stimCall.stim, _toDraw[stims[stimCall.stim].win])
    /\ \E j \in 1..Len(stims) : stims[j].status = "NOT_STARTED" /\ ~stims[j].autoDraw

\* the draw lists of window w agree with each other and with the stimuli
ListsAgree(w) ==
    /\ Len(_toDraw[w]) = Len(_toDrawDepths[w])
    /\ \A k \in 1..Len(_toDraw[w]) :
          /\ _toDraw[w][k] \in 1..Len(stims)
          /\ _toDrawDepths[w][k] = stims[_toDraw[w][k]].depth
          /\ \A j \in 1..Len(_toDraw[w]) : _toDraw[w][j] = _toDraw[w][k] => j = k
          /\ k > 1 => _toDrawDepths[w][k - 1] >= _toDrawDepths[w][k]

\* an autoDraw call changed the list of window w in depth and enrolment
\* order: a stimulus switched on went behind every stimulus as deep or
\* deeper and before every shallower one, a stimulus switched off left
\* the others in their order
OrderKept(w) ==
    LET i == stimCall'.stim
        d == stims[i].depth
    IN  IF stimCall'.value
        THEN \E p \in 1..(Len(_toDraw[w]) + 1) :
                /\ _toDraw'[w] = Insert(_toDraw[w], p, i)
                /\ \A k \in 1..Len(_toDraw[w]) : k < p <=> _toDrawDepths[w][k] >= d
        ELSE \E p \in 1..Len(_toDraw[w]) :
                /\ _toDraw[w][p] = i
                /\ _toDraw'[w] = Pop(_toDraw[w], p)

\* C28: after any autoDraw on/off calls (depths set only while not drawn),
\* a window's _toDraw and _toDrawDepths have equal length, _toDrawDepths[k]
\* is the depth of _toDraw[k], no stimulus is listed twice, depths do not
\* increase along the list, and stimuli of equal depth stay in the order
\* they were switched on
C28_DrawListOrder ==
    /\ [](\A w \in Windows : ListsAgree(w))
    /\ [][ \A w \in Windows : _toDraw'[w] # _toDraw[w] =>
              stimCall'.op = "autoDraw" /\ OrderKept(w) ]_vars

\* the stimulus just switched on stands second of three in its window's
\* list: behind one of its own depth, before a shallower one
C28_Witness ==
    /\ stimCall.op = "autoDraw"
    /\ stimCall.value
    /\ \E w \in Windows :
          /\ Len(_toDraw[w]) = 3
          /\ _toDraw[w][2] = stimCall.stim
          /\ _toDrawDepths[w][1] = _toDrawDepths[w][2]
          /\ _toDrawDepths[w][3] < _toDrawDepths[w][2]

\* C27: a read of verticesPix returns convertToPix of the stimulus's size,
\* orientation, position and units as they are now, in the window it has now:
\* no setter call on pos, size, ori, units or win leaves stale vertices to be
\* returned
C27_VerticesCurrent ==
    stimCall.op = "verticesPix" =>
        stimCall.returned = VerticesOf(stims[stimCall.stim], _unit2PixMappings)

====
